---- MODULE Spec2Model ----
(***************************************************************************)
(* LogicFlow expression engine: tokenizer, syntax validator, recursive-    *)
(* descent parser, evaluator, truth-table builder with cell edits, K-Map   *)
(* generator and the shortened-truth-table (STTT) proof engine.            *)
(*                                                                         *)
(* Text is modelled as a sequence of one-character strings.  The module is *)
(* ASCII only, so the six Unicode connective characters of the source are  *)
(* written with the lower-case names below (the tokenizer upper-cases its  *)
(* input, so a lower-case name can never collide with an input letter).    *)
(***************************************************************************)
EXTENDS Integers, Sequences, FiniteSets, TLC

\* ---------------------------------------------------------------- bounds
MaxExprLen == 3
MaxProofLen == 4
MaxEdits == 2
MaxMinority == 4

\* ------------------------------------------------------------ characters
SYM_NOT == "not"
SYM_AND == "and"
SYM_OR == "or"
SYM_IMPLIES == "imp"
SYM_IFF == "iff"
SYM_XOR == "xor"

SYMBOLS == {SYM_NOT, SYM_AND, SYM_OR, SYM_IMPLIES, SYM_IFF, SYM_XOR,
            "(", ")", "[", "]", "{", "}"}

Letters == {"A", "B", "C", "D", "E", "F", "I", "L", "M", "N", "O", "P",
            "Q", "R", "S", "T", "X"}

\* String.prototype.toUpperCase on the letters the model types in lower case.
toUpperCase(ch) ==
    CASE ch = "a" -> "A"
      [] ch = "b" -> "B"
      [] ch = "p" -> "P"
      [] ch = "q" -> "Q"
      [] OTHER -> ch

\* OPS: alias -> canonical symbol, the keys sorted longest first as
\* Object.keys(OPS).sort((a, b) => b.length - a.length) leaves them.
OPS ==
    << [key |-> <<"I","M","P","L","I","E","S">>, symbol |-> SYM_IMPLIES],
       [key |-> <<"<","-",">">>, symbol |-> SYM_IFF],
       [key |-> <<"<","=",">">>, symbol |-> SYM_IFF],
       [key |-> <<"I","F","F">>, symbol |-> SYM_IFF],
       [key |-> <<"A","N","D">>, symbol |-> SYM_AND],
       [key |-> <<"N","O","T">>, symbol |-> SYM_NOT],
       [key |-> <<"X","O","R">>, symbol |-> SYM_XOR],
       [key |-> <<"-",">">>, symbol |-> SYM_IMPLIES],
       [key |-> <<"=",">">>, symbol |-> SYM_IMPLIES],
       [key |-> <<"&","&">>, symbol |-> SYM_AND],
       [key |-> <<"|","|">>, symbol |-> SYM_OR],
       [key |-> <<"O","R">>, symbol |-> SYM_OR],
       [key |-> <<"&">>, symbol |-> SYM_AND],
       [key |-> <<"|">>, symbol |-> SYM_OR],
       [key |-> <<"!">>, symbol |-> SYM_NOT],
       [key |-> <<"~">>, symbol |-> SYM_NOT],
       [key |-> <<"-">>, symbol |-> SYM_NOT],
       [key |-> <<"^">>, symbol |-> SYM_XOR] >>

SymbolType(symbol) ==
    CASE symbol = SYM_NOT -> "NOT"
      [] symbol = SYM_AND -> "AND"
      [] symbol = SYM_OR -> "OR"
      [] symbol = SYM_IMPLIES -> "IMPLIES"
      [] symbol = SYM_IFF -> "IFF"
      [] symbol = SYM_XOR -> "XOR"
      [] symbol = "(" -> "LPAREN"
      [] symbol = ")" -> "RPAREN"
      [] symbol = "[" -> "LBRACKET"
      [] symbol = "]" -> "RBRACKET"
      [] symbol = "{" -> "LBRACE"
      [] symbol = "}" -> "RBRACE"
      [] OTHER -> "VAR"

Token(t, v) == [type |-> t, value |-> v]
EOF == Token("EOF", "")

\* ------------------------------------------------------------- tokenizer
startsWith(str, i, key) ==
    /\ i + Len(key) - 1 <= Len(str)
    /\ \A k \in 1..Len(key) : str[i + k - 1] = key[k]

\* index of the first OPS key the remainder starts with, 0 when none
matchedOp(str, i) ==
    LET hits == {k \in 1..Len(OPS) : startsWith(str, i, OPS[k].key)}
    IN IF hits = {} THEN 0 ELSE CHOOSE k \in hits : \A j \in hits : k <= j

stripInput(input) ==
    LET up == [k \in 1..Len(input) |-> toUpperCase(input[k])]
    IN SelectSeq(up, LAMBDA ch : ch # " ")

RECURSIVE tokenizeFrom(_, _)
tokenizeFrom(str, i) ==
    IF i > Len(str) THEN <<EOF>>
    ELSE LET op == matchedOp(str, i)
             char == str[i]
         IN IF op # 0
              THEN <<Token(SymbolType(OPS[op].symbol), OPS[op].symbol)>>
                       \o tokenizeFrom(str, i + Len(OPS[op].key))
            ELSE IF char \in SYMBOLS
              THEN <<Token(SymbolType(char), char)>> \o tokenizeFrom(str, i + 1)
            ELSE IF char \in Letters \/ char = "1" \/ char = "0"
              THEN <<Token("VAR", char)>> \o tokenizeFrom(str, i + 1)
            ELSE tokenizeFrom(str, i + 1)

tokenize(input) == tokenizeFrom(stripInput(input), 1)

\* ------------------------------------------------------ syntax validator
Diag(m, a) == [msg |-> m, args |-> a]
NULL == Diag("null", <<>>)

\* variant: every closing bracket is taken to close a parenthesis
bracketMap_Paren(close) == "("

bracketMap(close) ==
    CASE close = ")" -> "(" [] close = "]" -> "[" [] close = "}" -> "{" [] OTHER -> "?"

isBinOp(t) == t.type \in {"AND", "OR", "IMPLIES", "IFF", "XOR"}
isVar(t) == t.type = "VAR" \/ t.value = "1" \/ t.value = "0"
isOpen(t) == t.type \in {"LPAREN", "LBRACKET", "LBRACE"}
isClose(t) == t.type \in {"RPAREN", "RBRACKET", "RBRACE"}

\* the for loop of validateSyntax from index i (0-based) with the bracket
\* stack so far; the result is the diagnostic returned or the final stack
RECURSIVE validateScan(_, _, _)
validateScan(tokens, i, stack) ==
    IF i >= Len(tokens) - 1 THEN [error |-> NULL, stack |-> stack]
    ELSE
      LET curr == tokens[i + 1]
          next == tokens[i + 2]
          popped == isClose(curr)
          mismatch == popped /\ (stack = <<>> \/ stack[Len(stack)] # bracketMap(curr.value))
          stack2 == IF isOpen(curr) THEN Append(stack, curr.value)
                    ELSE IF popped /\ stack # <<>> THEN SubSeq(stack, 1, Len(stack) - 1)
                    ELSE stack
      IN IF mismatch
           THEN [error |-> Diag("Grouping mismatch: Unexpected", <<curr.value>>), stack |-> stack2]
         ELSE IF isBinOp(curr) /\ isBinOp(next)
           THEN [error |-> Diag("Mathematical syntax error: Adjacent operators",
                                <<curr.value, next.value>>), stack |-> stack2]
         ELSE IF isVar(curr) /\ isVar(next)
           THEN [error |-> Diag("Missing operator between", <<curr.value, next.value>>),
                 stack |-> stack2]
         ELSE IF isOpen(curr) /\ isClose(next)
           THEN [error |-> Diag("Empty brackets found", <<>>), stack |-> stack2]
         ELSE validateScan(tokens, i + 1, stack2)

validateSyntax(tokens) ==
    IF Len(tokens) = 0 \/ (Len(tokens) = 1 /\ tokens[1].type = "EOF")
      THEN Diag("Empty expression", <<>>)
    ELSE
      LET scan == validateScan(tokens, 0, <<>>)
          last == tokens[Len(tokens) - 1]
      IN IF scan.error # NULL THEN scan.error
         ELSE IF Len(scan.stack) > 0
           THEN Diag("Missing closing bracket for", <<scan.stack[Len(scan.stack)]>>)
         ELSE IF last.type \in {"AND", "OR", "IMPLIES", "IFF", "XOR", "NOT"}
           THEN Diag("Expression ends incomplete", <<last.value>>)
         ELSE NULL

\* ---------------------------------------------------------------- parser
\* The AST is kept as an arena: nodes[k + 1] is the node whose id is
\* "node-k" (generateId numbers the nodes in creation order); a child field
\* holds the child's id, NoNode when the field is absent.
NoNode == -1

Node(id, type, value, left, right, operand, expression, depth) ==
    [id |-> id, type |-> type, value |-> value, left |-> left, right |-> right,
     operand |-> operand, expression |-> expression, depth |-> depth]

peek(tokens, pos) == IF pos < Len(tokens) THEN tokens[pos + 1] ELSE EOF

Max(a, b) == IF a >= b THEN a ELSE b

\* the operator parsed at each precedence level: parseIFF is level 1,
\* parseImplies 2, parseXor 3, parseOr 4, parseAnd 5
LevelType(level) ==
    CASE level = 1 -> "IFF"
      [] level = 2 -> "IMPLIES"
      [] level = 3 -> "XOR"
      [] level = 4 -> "OR"
      [] level = 5 -> "AND"

LevelSymbol(level) ==
    CASE level = 1 -> SYM_IFF
      [] level = 2 -> SYM_IMPLIES
      [] level = 3 -> SYM_XOR
      [] level = 4 -> SYM_OR
      [] level = 5 -> SYM_AND

\* A parser state is [pos, nodes]; every parse function returns the state
\* after it together with the id of the node it returns.
PState(pos, nodes, node) == [pos |-> pos, nodes |-> nodes, node |-> node]

openChar(open) ==
    CASE open = "LPAREN" -> "(" [] open = "LBRACKET" -> "[" [] OTHER -> "{"
closeChar(open) ==
    CASE open = "LPAREN" -> ")" [] open = "LBRACKET" -> "]" [] OTHER -> "}"
expectedClose(open) ==
    CASE open = "LPAREN" -> "RPAREN" [] open = "LBRACKET" -> "RBRACKET" [] OTHER -> "RBRACE"

RECURSIVE parseLevel(_, _, _)
RECURSIVE parseLoop(_, _, _)
RECURSIVE parseNot(_, _)
RECURSIVE parseFactor(_, _)

\* the fallback at the end of parseFactor: consume one token and synthesize
\* the placeholder variable '?'
parseFallback(tokens, st) ==
    LET id == Len(st.nodes)
    IN PState(st.pos + 1,
              Append(st.nodes, Node(id, "VAR", "?", NoNode, NoNode, NoNode, <<"?">>, 0)),
              id)

parseFactor(tokens, st) ==
    LET token == peek(tokens, st.pos)
    IN IF isOpen(token)
         THEN LET inner == parseLevel(tokens, 1, [st EXCEPT !.pos = st.pos + 1])
                  close == peek(tokens, inner.pos)
                  node == inner.nodes[inner.node + 1]
              IN IF close.type = expectedClose(token.type)
                   THEN PState(inner.pos + 1,
                               [inner.nodes EXCEPT ![inner.node + 1].expression =
                                   <<openChar(token.type)>> \o node.expression
                                       \o <<closeChar(token.type)>>],
                               inner.node)
                 ELSE parseFallback(tokens, inner)
       ELSE IF token.type = "VAR"
         THEN LET id == Len(st.nodes)
              IN PState(st.pos + 1,
                        Append(st.nodes, Node(id, "VAR", token.value, NoNode, NoNode, NoNode,
                                              <<token.value>>, 0)),
                        id)
       ELSE parseFallback(tokens, st)

parseNot(tokens, st) ==
    IF peek(tokens, st.pos).type = "NOT"
      THEN LET token == peek(tokens, st.pos)
               sub == parseNot(tokens, [st EXCEPT !.pos = st.pos + 1])
               operand == sub.nodes[sub.node + 1]
               id == Len(sub.nodes)
           IN PState(sub.pos,
                     Append(sub.nodes, Node(id, "NOT", "", NoNode, NoNode, sub.node,
                                            <<token.value>> \o operand.expression,
                                            operand.depth + 1)),
                     id)
    ELSE parseFactor(tokens, st)

\* the while loop of a binary level, st.node being the current 'left'
parseLoop(tokens, level, st) ==
    IF peek(tokens, st.pos).type = LevelType(level)
      THEN LET sub == IF level = 5 THEN parseNot(tokens, [st EXCEPT !.pos = st.pos + 1])
                      ELSE parseLevel(tokens, level + 1, [st EXCEPT !.pos = st.pos + 1])
               left == sub.nodes[st.node + 1]
               right == sub.nodes[sub.node + 1]
               id == Len(sub.nodes)
           IN parseLoop(tokens, level,
                  PState(sub.pos,
                         Append(sub.nodes,
                                Node(id, LevelType(level), "", st.node, sub.node, NoNode,
                                     left.expression \o <<" ", LevelSymbol(level), " ">>
                                         \o right.expression,
                                     Max(left.depth, right.depth) + 1)),
                         id))
    ELSE st

parseLevel(tokens, level, st) ==
    parseLoop(tokens, level,
              IF level = 5 THEN parseNot(tokens, st) ELSE parseLevel(tokens, level + 1, st))

parseIFF(tokens, st) == parseLevel(tokens, 1, st)
parseImplies(tokens, st) == parseLevel(tokens, 2, st)
parseXor(tokens, st) == parseLevel(tokens, 3, st)
parseOr(tokens, st) == parseLevel(tokens, 4, st)
parseAnd(tokens, st) == parseLevel(tokens, 5, st)

\* Parser.parse: the tree of parseIFF, whatever token follows it.  The
\* result keeps the final position so that the tokens left over can be seen.
parse(tokens) == parseIFF(tokens, [pos |-> 0, nodes |-> <<>>, node |-> NoNode])

\* ------------------------------------------------------------- evaluator
\* variant: a variable absent from the context reads as true
Lookup_AbsentTrue(context, name) == IF name \in DOMAIN context THEN context[name] ELSE TRUE

Lookup(context, name) == IF name \in DOMAIN context THEN context[name] ELSE FALSE

RECURSIVE evaluateAST(_, _, _)
evaluateAST(nodes, id, context) ==
    LET node == nodes[id + 1]
    IN IF node.type = "VAR"
         THEN IF node.value = "1" THEN TRUE
              ELSE IF node.value = "0" THEN FALSE
              ELSE Lookup(context, node.value)
       ELSE IF node.type = "NOT" THEN ~evaluateAST(nodes, node.operand, context)
       ELSE LET l == evaluateAST(nodes, node.left, context)
                r == evaluateAST(nodes, node.right, context)
            IN CASE node.type = "AND" -> l /\ r
                 [] node.type = "OR" -> l \/ r
                 [] node.type = "XOR" -> l # r
                 [] node.type = "IMPLIES" -> ~l \/ r
                 [] node.type = "IFF" -> l = r
                 [] OTHER -> FALSE

\* ------------------------------------------------- JavaScript primitives
\* A Record<string, boolean> is a sequence of [key, val] entries in own-key
\* order: canonical integer keys ("0", "1") first in ascending order, then
\* the string keys in insertion order.  Keys are texts (character sequences).
IntegerKey(key) == key = <<"0">> \/ key = <<"1">>
KeyNumber(key) == IF key = <<"0">> THEN 0 ELSE 1

ObjHas(obj, key) == \E k \in 1..Len(obj) : obj[k].key = key
ObjIndex(obj, key) == CHOOSE k \in 1..Len(obj) : obj[k].key = key
ObjGet(obj, key) == IF ObjHas(obj, key) THEN obj[ObjIndex(obj, key)].val ELSE FALSE

ObjSet(obj, key, val) ==
    IF ObjHas(obj, key)
      THEN [obj EXCEPT ![ObjIndex(obj, key)].val = val]
    ELSE IF IntegerKey(key)
      THEN LET before == SelectSeq(obj, LAMBDA e : IntegerKey(e.key)
                                                   /\ KeyNumber(e.key) < KeyNumber(key))
               after == SubSeq(obj, Len(before) + 1, Len(obj))
           IN before \o <<[key |-> key, val |-> val]>> \o after
    ELSE Append(obj, [key |-> key, val |-> val])

ObjValues(obj) == [k \in 1..Len(obj) |-> obj[k].val]

\* the order Array.prototype.sort gives one-character names
CharOrder == <<"0", "1", "?", "A", "B", "C", "D", "E", "F", "I", "L", "M", "N", "O",
               "P", "Q", "R", "S", "T", "X">>
CharRank(ch) == CHOOSE k \in 1..Len(CharOrder) : CharOrder[k] = ch

RECURSIVE SortNames(_)
SortNames(S) ==
    IF S = {} THEN <<>>
    ELSE LET m == CHOOSE x \in S : \A y \in S : CharRank(x) <= CharRank(y)
         IN <<m>> \o SortNames(S \ {m})

Pow2(n) == 2 ^ n
\* (x >> k) & 1
Bit(x, k) == (x \div Pow2(k)) % 2

\* ----------------------------------------------------- truth-table parts
RECURSIVE extractSubExpressions(_, _, _)
extractSubExpressions(nodes, id, list) ==
    LET node == nodes[id + 1]
        l1 == IF node.left # NoNode THEN extractSubExpressions(nodes, node.left, list) ELSE list
        l2 == IF node.right # NoNode THEN extractSubExpressions(nodes, node.right, l1) ELSE l1
        l3 == IF node.operand # NoNode THEN extractSubExpressions(nodes, node.operand, l2) ELSE l2
    IN IF \E k \in 1..Len(l3) : nodes[l3[k] + 1].expression = node.expression
         THEN l3
       ELSE Append(l3, id)

getDirectDependencies(nodes, id) ==
    LET node == nodes[id + 1]
    IN (IF node.left # NoNode THEN <<node.left>> ELSE <<>>)
       \o (IF node.right # NoNode THEN <<node.right>> ELSE <<>>)
       \o (IF node.operand # NoNode THEN <<node.operand>> ELSE <<>>)

extractVariablesFromExpression(expression) ==
    LET tokens == tokenize(expression)
    IN SortNames({tokens[k].value : k \in {j \in 1..Len(tokens) :
                      tokens[j].type = "VAR" /\ tokens[j].value \notin {"0", "1"}}})

Column(id, expression, isInput, isOutput, astId, dependencyIds) ==
    [id |-> id, expression |-> expression, isInput |-> isInput, isOutput |-> isOutput,
     astId |-> astId, dependencyIds |-> dependencyIds]

SeqHas(seq, x) == \E k \in 1..Len(seq) : seq[k] = x

\* the context recalculateRow / analyzeLogic evaluate under
InputContext(columns, values) ==
    LET inputs == SelectSeq(columns, LAMBDA c : c.isInput)
    IN [v \in {inputs[k].expression[1] : k \in 1..Len(inputs)} |-> ObjGet(values, <<v>>)]

RECURSIVE recalcValues(_, _, _, _, _, _, _)
recalcValues(columns, k, nodes, ast, subExprNodes, context, values) ==
    IF k > Len(columns) THEN values
    ELSE LET col == columns[k]
             found == ~col.isInput /\ (SeqHas(subExprNodes, col.astId) \/ col.astId = ast)
         IN recalcValues(columns, k + 1, nodes, ast, subExprNodes, context,
                IF found THEN ObjSet(values, col.expression,
                                     evaluateAST(nodes, col.astId, context))
                ELSE values)

\* variant: the derived cells are computed without the row's inputs
recalculateRow_NoContext(row, columns, nodes, ast) ==
    LET subExprNodes == extractSubExpressions(nodes, ast, <<>>)
        context == [v \in {} |-> FALSE]
    IN [row EXCEPT !.values =
           recalcValues(columns, 1, nodes, ast, subExprNodes, context, row.values)]

recalculateRow(row, columns, nodes, ast) ==
    LET subExprNodes == extractSubExpressions(nodes, ast, <<>>)
        context == InputContext(columns, row.values)
    IN [row EXCEPT !.values =
           recalcValues(columns, 1, nodes, ast, subExprNodes, context, row.values)]

\* ----------------------------------------------------------------- K-Map
\* Gray-code labels, each a sequence of bits
getGrayCode(n) ==
    IF n = 1 THEN << <<0>>, <<1>> >>
    ELSE IF n = 2 THEN << <<0, 0>>, <<0, 1>>, <<1, 1>>, <<1, 0>> >>
    ELSE <<>>

RECURSIVE parseBinary(_)
parseBinary(bits) ==
    IF bits = <<>> THEN 0
    ELSE 2 * parseBinary(SubSeq(bits, 1, Len(bits) - 1)) + bits[Len(bits)]

\* term of a group: the literals of the bits constant over its minterms
RECURSIVE termFrom(_, _, _)
termFrom(minterms, allVars, i) ==
    IF i >= Len(allVars) THEN <<>>
    ELSE LET bits == {Bit(m, Len(allVars) - 1 - i) : m \in minterms}
             lit == IF bits = {1} THEN <<allVars[i + 1]>>
                    ELSE IF bits = {0} THEN <<SYM_NOT, allVars[i + 1]>>
                    ELSE <<>>
         IN lit \o termFrom(minterms, allVars, i + 1)

generateTerm(minterms, rowVars, colVars) ==
    LET term == termFrom(minterms, rowVars \o colVars, 0)
    IN IF term = <<>> THEN <<"1">> ELSE term

Size(h, w) == [h |-> h, w |-> w, area |-> h * w]

\* variant: the single-cell size is never tried
kmapSizes_NoSingles(rows, cols) ==
    LET all == << Size(4, 4), Size(4, 2), Size(4, 1), Size(2, 4), Size(2, 2), Size(2, 1),
                  Size(1, 4), Size(1, 2) >>
        pushed == SelectSeq(all, LAMBDA z : z.h <= rows /\ z.w <= cols)
        OfArea(a) == SelectSeq(pushed, LAMBDA z : z.area = a)
    IN OfArea(16) \o OfArea(8) \o OfArea(4) \o OfArea(2)

\* the candidate sizes in the order the nested loops push them, then the
\* stable sort by decreasing area
kmapSizes(rows, cols) ==
    LET all == << Size(4, 4), Size(4, 2), Size(4, 1), Size(2, 4), Size(2, 2), Size(2, 1),
                  Size(1, 4), Size(1, 2), Size(1, 1) >>
        pushed == SelectSeq(all, LAMBDA z : z.h <= rows /\ z.w <= cols)
        OfArea(a) == SelectSeq(pushed, LAMBDA z : z.area = a)
    IN OfArea(16) \o OfArea(8) \o OfArea(4) \o OfArea(2) \o OfArea(1)

\* the cells of the placement of a size at (r, c), in scan order
placementCells(size, r, c, rows, cols) ==
    [k \in 1..(size.h * size.w) |->
        [r |-> (r + ((k - 1) \div size.w)) % rows, c |-> (c + ((k - 1) % size.w)) % cols]]

\* tryPlacement accepting every all-true placement, covered or not
tryPlacement_AnyAllOnes(grid, size, r, c, rowVars, colVars, acc) ==
    LET rows == Len(grid)
        cols == Len(grid[1])
        cells == placementCells(size, r, c, rows, cols)
        allOnes == \A k \in 1..Len(cells) : grid[cells[k].r + 1][cells[k].c + 1].value
        currentMinterms == {grid[cells[k].r + 1][cells[k].c + 1].mintermIndex :
                               k \in 1..Len(cells)}
    IN IF allOnes
         THEN [groups |-> Append(acc.groups,
                                 [cells |-> cells,
                                  term |-> generateTerm(currentMinterms, rowVars, colVars)]),
               coveredMinterms |-> acc.coveredMinterms \cup currentMinterms]
       ELSE acc

\* one iteration of the innermost placement loop of solveKMap
tryPlacement(grid, size, r, c, rowVars, colVars, acc) ==
    LET rows == Len(grid)
        cols == Len(grid[1])
        cells == placementCells(size, r, c, rows, cols)
        allOnes == \A k \in 1..Len(cells) : grid[cells[k].r + 1][cells[k].c + 1].value
        currentMinterms == {grid[cells[k].r + 1][cells[k].c + 1].mintermIndex :
                               k \in 1..Len(cells)}
        coversNew == \E m \in currentMinterms : m \notin acc.coveredMinterms
    IN IF allOnes /\ coversNew
         THEN [groups |-> Append(acc.groups,
                                 [cells |-> cells,
                                  term |-> generateTerm(currentMinterms, rowVars, colVars)]),
               coveredMinterms |-> acc.coveredMinterms \cup currentMinterms]
       ELSE acc

\* the two inner loops: the placements of one size, k counting them in order
RECURSIVE solvePlacements(_, _, _, _, _, _)
solvePlacements(grid, size, k, rowVars, colVars, acc) ==
    LET cols == Len(grid[1])
    IN IF k >= Len(grid) * cols THEN acc
       ELSE LET next == tryPlacement(grid, size, k \div cols, k % cols,
                                     rowVars, colVars, acc)
            IN IF next = acc   \* placement rejected
                 THEN solvePlacements(grid, size, k + 1, rowVars, colVars, acc)
               ELSE solvePlacements(grid, size, k + 1, rowVars, colVars, next)

\* the outer loop over the sizes
RECURSIVE solveLoop(_, _, _, _, _, _)
solveLoop(grid, sizes, i, rowVars, colVars, acc) ==
    IF i > Len(sizes) THEN acc
    ELSE solveLoop(grid, sizes, i + 1, rowVars, colVars,
                   solvePlacements(grid, sizes[i], 0, rowVars, colVars, acc))

RECURSIVE joinTerms(_)
joinTerms(groups) ==
    IF groups = <<>> THEN <<>>
    ELSE IF Len(groups) = 1 THEN groups[1].term
    ELSE groups[1].term \o <<" ", SYM_OR, " ">> \o joinTerms(Tail(groups))

solveKMap(grid, rowVars, colVars) ==
    LET done == solveLoop(grid, kmapSizes(Len(grid), Len(grid[1])), 1, rowVars, colVars,
                          [groups |-> <<>>, coveredMinterms |-> {}])
    IN [groups |-> done.groups, minimizedExpression |-> joinTerms(done.groups)]

NoKMap == [defined |-> FALSE]

\* the variable counts generateKMap draws a map for
MinKMapVars == 2
MaxKMapVars == 4

\* minterm of a row: the first variable is the most significant bit
rowMinterm(variables, row) ==
    LET n == Len(variables)
        RECURSIVE sum(_)
        sum(i) == IF i > n THEN 0
                  ELSE (IF ObjGet(row.values, <<variables[i]>>) THEN Pow2(n - i) ELSE 0)
                       + sum(i + 1)
    IN sum(1)

\* Object.values(row.values)[Object.values(row.values).length - 1]
rowResultVal(row) == ObjValues(row.values)[Len(row.values)]

generateKMap(variables, rows) ==
    LET numVars == Len(variables)
    IN IF numVars < MinKMapVars \/ numVars > MaxKMapVars THEN NoKMap
       ELSE
         LET rowVars == IF numVars = 4 THEN SubSeq(variables, 1, 2) ELSE SubSeq(variables, 1, 1)
             colVars == IF numVars = 4 THEN SubSeq(variables, 3, 4)
                        ELSE SubSeq(variables, 2, numVars)
             rowGray == getGrayCode(Len(rowVars))
             colGray == getGrayCode(Len(colVars))
             \* the minterm and resultVal of each row, in row order
             minterms == [k \in 1..Len(rows) |-> rowMinterm(variables, rows[k])] \o <<>>
             results == [k \in 1..Len(rows) |-> rowResultVal(rows[k])] \o <<>>
             \* mintermMap: the last row of a minterm decides its value
             mintermVal(m) ==
                 LET hits == {k \in 1..Len(rows) : minterms[k] = m}
                 IN hits # {} /\ results[CHOOSE k \in hits : \A j \in hits : j <= k]
             onMinterms == {minterms[k] : k \in {j \in 1..Len(rows) : results[j]}}
             \* (\o <<>> makes each row and the grid an explicit tuple)
             grid == [r \in 1..Len(rowGray) |->
                        [c \in 1..Len(colGray) |->
                            LET mintermIndex == parseBinary(rowGray[r] \o colGray[c])
                            IN [value |-> mintermVal(mintermIndex),
                                mintermIndex |-> mintermIndex]] \o <<>>] \o <<>>
             solved == solveKMap(grid, rowVars, colVars)
         IN [defined |-> TRUE, variables |-> variables, grid |-> grid,
             rowLabels |-> rowGray, colLabels |-> colGray, groups |-> solved.groups,
             minimizedExpression |->
                 IF solved.minimizedExpression # <<>> THEN solved.minimizedExpression
                 ELSE IF onMinterms = {} THEN <<"0">> ELSE <<"1">>]

\* ------------------------------------------------------------- analysis
\* AppSettings, the two options the engine reads
Settings(rowOrder, showSubExpressions) ==
    [rowOrder |-> rowOrder, showSubExpressions |-> showSubExpressions]
DEFAULT_SETTINGS == Settings("1->0", TRUE)

Failure(error) == [ok |-> FALSE, error |-> error]

\* rowValues of one row: finalColumns visited in order
RECURSIVE buildRowValues(_, _, _, _, _, _, _)
buildRowValues(columns, k, nodes, ast, subExprNodes, context, values) ==
    IF k > Len(columns) THEN values
    ELSE LET col == columns[k]
         IN buildRowValues(columns, k + 1, nodes, ast, subExprNodes, context,
                IF col.isInput
                  THEN ObjSet(values, col.expression, context[col.expression[1]])
                ELSE IF SeqHas(subExprNodes, col.astId)
                  THEN ObjSet(values, col.expression, evaluateAST(nodes, col.astId, context))
                ELSE IF col.isOutput
                  THEN ObjSet(values, col.expression, evaluateAST(nodes, ast, context))
                ELSE values)

Classify(rows, resultExpr) ==
    LET tautology == \A k \in 1..Len(rows) : ObjGet(rows[k].values, resultExpr)
        contradiction == \A k \in 1..Len(rows) : ~ObjGet(rows[k].values, resultExpr)
    IN IF contradiction THEN "Contradiction"
       ELSE IF tautology THEN "Tautology"
       ELSE "Contingency"

\* varColumns, stepColumns, resultColumn and finalColumns of analyzeLogic
analysisColumns(nodes, ast, subExprNodes, declaredVariables, settings) ==
    LET varColumns == [k \in 1..Len(declaredVariables) |->
                          Column(<<"var", declaredVariables[k]>>, <<declaredVariables[k]>>,
                                 TRUE, FALSE, NoNode, <<>>)]
        stepNodes == SelectSeq(subExprNodes,
                               LAMBDA n : nodes[n + 1].type # "VAR"
                                          /\ nodes[n + 1].expression # nodes[ast + 1].expression)
        stepColumns == [k \in 1..Len(stepNodes) |->
                           Column(<<"node", stepNodes[k]>>, nodes[stepNodes[k] + 1].expression,
                                  FALSE, FALSE, stepNodes[k],
                                  getDirectDependencies(nodes, stepNodes[k]))]
        resultColumn == Column(<<"node", ast>>, nodes[ast + 1].expression, FALSE, TRUE, ast,
                               getDirectDependencies(nodes, ast))
    IN IF settings.showSubExpressions
         THEN varColumns \o stepColumns \o <<resultColumn>>
       ELSE varColumns \o <<resultColumn>>

\* variant: the first declared variable is the least significant bit
rowContext_LsbFirst(declaredVariables, settings, i) ==
    LET n == Len(declaredVariables)
        valIndex == IF settings.rowOrder = "1->0" THEN (Pow2(n) - 1) - i ELSE i
    IN [v \in {declaredVariables[k] : k \in 1..n} |->
           Bit(valIndex, (CHOOSE k \in 1..n : declaredVariables[k] = v) - 1) = 1]

\* the assignment enumerated at loop index i of analyzeLogic
rowContext(declaredVariables, settings, i) ==
    LET n == Len(declaredVariables)
        valIndex == IF settings.rowOrder = "1->0" THEN (Pow2(n) - 1) - i ELSE i
    IN [v \in {declaredVariables[k] : k \in 1..n} |->
           Bit(valIndex, n - (CHOOSE k \in 1..n : declaredVariables[k] = v)) = 1]

\* the row loop of analyzeLogic
analysisRows(nodes, ast, subExprNodes, finalColumns, declaredVariables, settings) ==
    [k \in 1..Pow2(Len(declaredVariables)) |->
        [id |-> k - 1, index |-> k - 1,
         values |-> buildRowValues(finalColumns, 1, nodes, ast, subExprNodes,
                                   rowContext(declaredVariables, settings, k - 1), <<>>)]]

\* the AnalysisResult analyzeLogic returns
analysisResult(nodes, ast, finalColumns, rows, declaredVariables) ==
    [present |-> TRUE, ast |-> ast, nodes |-> nodes, columns |-> finalColumns,
     rows |-> rows, variables |-> declaredVariables,
     classification |-> Classify(rows, nodes[ast + 1].expression),
     mainConnective |-> nodes[ast + 1].type,
     kMapData |-> generateKMap(declaredVariables, rows)]

analysisTable(nodes, ast, subExprNodes, finalColumns, declaredVariables, settings) ==
    analysisResult(nodes, ast, finalColumns,
                   analysisRows(nodes, ast, subExprNodes, finalColumns, declaredVariables,
                                settings),
                   declaredVariables)

analysisOf(nodes, ast, subExprNodes, declaredVariables, settings) ==
    analysisTable(nodes, ast, subExprNodes,
                  analysisColumns(nodes, ast, subExprNodes, declaredVariables, settings),
                  declaredVariables, settings)

\* the variable check of analyzeLogic
undeclaredVariables(expression, declaredVariables) ==
    SelectSeq(extractVariablesFromExpression(expression),
              LAMBDA v : ~SeqHas(declaredVariables, v))

\* analyzeLogic from the parse on
analyzeParsed(parsed, undeclared, declaredVariables, settings) ==
    IF Len(undeclared) > 0 THEN Failure(Diag("used but not declared", undeclared))
    ELSE [ok |-> TRUE,
          result |-> analysisOf(parsed.nodes, parsed.node,
                                extractSubExpressions(parsed.nodes, parsed.node, <<>>),
                                declaredVariables, settings)]

analyzeTokens(tokens, validationError, expression, declaredVariables, settings) ==
    IF validationError # NULL THEN Failure(validationError)
    ELSE analyzeParsed(parse(tokens), undeclaredVariables(expression, declaredVariables),
                       declaredVariables, settings)

analyzeLogic(expression, declaredVariables, settings) ==
    analyzeTokens(tokenize(expression), validateSyntax(tokenize(expression)), expression,
                  declaredVariables, settings)

\* variant: the classification of the unedited table is kept
reanalyzeFromRows_Stale(current, updatedRows) ==
    [current EXCEPT !.rows = updatedRows,
                    !.kMapData = generateKMap(current.variables, updatedRows)]

reanalyzeFromRows(current, updatedRows) ==
    [current EXCEPT !.rows = updatedRows,
                    !.classification =
                        Classify(updatedRows, current.nodes[current.ast + 1].expression),
                    !.kMapData = generateKMap(current.variables, updatedRows)]

\* ---------------------------------------------------- implication forms
\* generateImplicationForms returning undefined
NoForms == [defined |-> FALSE]

\* one pass of replace(/notnot/g, ''): leftmost pairs of negation signs go
RECURSIVE dropNotPairs(_, _)
dropNotPairs(str, i) ==
    IF i > Len(str) THEN <<>>
    ELSE IF i < Len(str) /\ str[i] = SYM_NOT /\ str[i + 1] = SYM_NOT
      THEN dropNotPairs(str, i + 2)
    ELSE <<str[i]>> \o dropNotPairs(str, i + 1)

RECURSIVE simplifyNegations(_)
simplifyNegations(str) ==
    IF dropNotPairs(str, 1) = str THEN str ELSE simplifyNegations(dropNotPairs(str, 1))

formatLabel(expr, negationHandling) ==
    LET normalized == [k \in 1..Len(expr) |->
                          IF expr[k] \in {"-", "!", "~"} THEN SYM_NOT ELSE expr[k]]
    IN IF negationHandling = "preserve" THEN expr
       ELSE IF negationHandling = "normalize" THEN normalized
       ELSE IF negationHandling = "simplify"
         THEN IF simplifyNegations(normalized) = <<>> THEN <<SYM_NOT, SYM_NOT>>
              ELSE simplifyNegations(normalized)
       ELSE expr

\* clean of generateImplicationForms: one outer pair of parentheses removed
clean(str) ==
    IF Len(str) >= 1 /\ str[1] = "(" /\ str[Len(str)] = ")"
      THEN SubSeq(str, 2, Len(str) - 1)
    ELSE str

generateImplicationForms(nodes, id) ==
    LET node == nodes[id + 1]
    IN IF node.type # "IMPLIES" \/ node.left = NoNode \/ node.right = NoNode THEN NoForms
       ELSE LET P == nodes[node.left + 1].expression
                Q == nodes[node.right + 1].expression
                arrow == <<" ", SYM_IMPLIES, " ">>
                negated(str) == <<SYM_NOT, "(">> \o str \o <<")">>
            IN [defined |-> TRUE,
                original |-> P \o arrow \o Q,
                converse |-> Q \o arrow \o P,
                inverse |-> negated(clean(P)) \o arrow \o negated(clean(Q)),
                contrapositive |-> negated(clean(Q)) \o arrow \o negated(clean(P))]

\* the implicationForms field as analyzeLogic returns it
formatForms(forms, negationHandling) ==
    IF ~forms.defined THEN NoForms
    ELSE [defined |-> TRUE,
          original |-> formatLabel(forms.original, negationHandling),
          converse |-> formatLabel(forms.converse, negationHandling),
          inverse |-> formatLabel(forms.inverse, negationHandling),
          contrapositive |-> formatLabel(forms.contrapositive, negationHandling)]

\* ----------------------------------------------------------- STTT engine
\* A branch: id (the path of labels from the root, standing for the random
\* UUIDs), steps, assignments (a function from AST node ids to booleans),
\* status, children and the recorded contradiction.
PNode(ast, targetValue) == [ast |-> ast, targetValue |-> targetValue]

Step(description, targetNodeExpression, value, reason) ==
    [description |-> description, targetNodeExpression |-> targetNodeExpression,
     value |-> value, reason |-> reason]

NoContradiction == [present |-> FALSE, variable |-> <<>>, val1 |-> FALSE, val2 |-> FALSE]

EmptyAssignments == [x \in {} |-> FALSE]

Branch(id, steps, assignments) ==
    [id |-> id, steps |-> steps, assignments |-> assignments, status |-> "Open",
     children |-> <<>>, contradiction |-> NoContradiction]

\* createChildBranch starting the child without the parent's assignments
createChildBranch_NoCopy(parent, label) ==
    Branch(Append(parent.id, label), <<Step("Subcase", <<"Branch">>, FALSE, "Branch")>>,
           EmptyAssignments)

createChildBranch(parent, label) ==
    Branch(Append(parent.id, label), <<Step("Subcase", <<"Branch">>, FALSE, "Branch")>>,
           parent.assignments)

Deterministic(ns) == [type |-> "Deterministic", nodes |-> ns, branches |-> <<>>]
Branching(b1, b2) == [type |-> "Branching", nodes |-> <<>>, branches |-> <<b1, b2>>]

\* getImplications reading XOR as IFF
getImplications_XorAsIff(nodes, id, val) ==
    LET node == nodes[id + 1]
        L == node.left
        R == node.right
    IN IF node.type = "VAR" THEN Deterministic(<<>>)
       ELSE IF node.type = "NOT" /\ node.operand # NoNode
         THEN Deterministic(<<PNode(node.operand, ~val)>>)
       ELSE IF L = NoNode \/ R = NoNode THEN Deterministic(<<>>)
       ELSE CASE node.type = "AND" ->
                   IF val THEN Deterministic(<<PNode(L, TRUE), PNode(R, TRUE)>>)
                   ELSE Branching(<<PNode(L, FALSE)>>, <<PNode(R, FALSE)>>)
              [] node.type = "OR" ->
                   IF ~val THEN Deterministic(<<PNode(L, FALSE), PNode(R, FALSE)>>)
                   ELSE Branching(<<PNode(L, TRUE)>>, <<PNode(R, TRUE)>>)
              [] node.type = "IMPLIES" ->
                   IF ~val THEN Deterministic(<<PNode(L, TRUE), PNode(R, FALSE)>>)
                   ELSE Branching(<<PNode(L, FALSE)>>, <<PNode(R, TRUE)>>)
              [] node.type = "IFF" ->
                   IF val THEN Branching(<<PNode(L, TRUE), PNode(R, TRUE)>>,
                                         <<PNode(L, FALSE), PNode(R, FALSE)>>)
                   ELSE Branching(<<PNode(L, TRUE), PNode(R, FALSE)>>,
                                  <<PNode(L, FALSE), PNode(R, TRUE)>>)
              [] node.type = "XOR" ->
                   IF val THEN Branching(<<PNode(L, TRUE), PNode(R, TRUE)>>,
                                          <<PNode(L, FALSE), PNode(R, FALSE)>>)
                   ELSE Branching(<<PNode(L, TRUE), PNode(R, FALSE)>>,
                                  <<PNode(L, FALSE), PNode(R, TRUE)>>)
              [] OTHER -> Deterministic(<<>>)

getImplications(nodes, id, val) ==
    LET node == nodes[id + 1]
        L == node.left
        R == node.right
    IN IF node.type = "VAR" THEN Deterministic(<<>>)
       ELSE IF node.type = "NOT" /\ node.operand # NoNode
         THEN Deterministic(<<PNode(node.operand, ~val)>>)
       ELSE IF L = NoNode \/ R = NoNode THEN Deterministic(<<>>)
       ELSE CASE node.type = "AND" ->
                   IF val THEN Deterministic(<<PNode(L, TRUE), PNode(R, TRUE)>>)
                   ELSE Branching(<<PNode(L, FALSE)>>, <<PNode(R, FALSE)>>)
              [] node.type = "OR" ->
                   IF ~val THEN Deterministic(<<PNode(L, FALSE), PNode(R, FALSE)>>)
                   ELSE Branching(<<PNode(L, TRUE)>>, <<PNode(R, TRUE)>>)
              [] node.type = "IMPLIES" ->
                   IF ~val THEN Deterministic(<<PNode(L, TRUE), PNode(R, FALSE)>>)
                   ELSE Branching(<<PNode(L, FALSE)>>, <<PNode(R, TRUE)>>)
              [] node.type = "IFF" ->
                   IF val THEN Branching(<<PNode(L, TRUE), PNode(R, TRUE)>>,
                                         <<PNode(L, FALSE), PNode(R, FALSE)>>)
                   ELSE Branching(<<PNode(L, TRUE), PNode(R, FALSE)>>,
                                  <<PNode(L, FALSE), PNode(R, TRUE)>>)
              [] node.type = "XOR" ->
                   IF ~val THEN Branching(<<PNode(L, TRUE), PNode(R, TRUE)>>,
                                          <<PNode(L, FALSE), PNode(R, FALSE)>>)
                   ELSE Branching(<<PNode(L, TRUE), PNode(R, FALSE)>>,
                                  <<PNode(L, FALSE), PNode(R, TRUE)>>)
              [] OTHER -> Deterministic(<<>>)

\* splitStatus closing the parent as soon as one child closes
splitStatus_Either(branchA, branchB) ==
    IF branchA.status = "Closed" \/ branchB.status = "Closed" THEN "Closed" ELSE "Complete"

\* the status a branch that split takes from its two children
splitStatus(branchA, branchB) ==
    IF branchA.status = "Closed" /\ branchB.status = "Closed" THEN "Closed" ELSE "Complete"

RECURSIVE solveBranch(_, _, _)
solveBranch(nodes, branch, todoQueue) ==
    IF todoQueue = <<>> THEN [branch EXCEPT !.status = "Complete"]
    ELSE
      LET ast == todoQueue[1].ast
          targetValue == todoQueue[1].targetValue
          currentQueue == Tail(todoQueue)
          expr == nodes[ast + 1].expression
      IN IF ast \in DOMAIN branch.assignments
           THEN IF branch.assignments[ast] # targetValue
                  THEN [branch EXCEPT
                          !.status = "Closed",
                          !.contradiction = [present |-> TRUE, variable |-> expr,
                                             val1 |-> branch.assignments[ast],
                                             val2 |-> targetValue],
                          !.steps = Append(@, Step("Contradiction", expr, targetValue,
                                                   "Forced"))]
                ELSE solveBranch(nodes, branch, currentQueue)
         ELSE
           LET assigned == [branch EXCEPT
                   !.assignments = (ast :> targetValue) @@ @,
                   !.steps = IF Len(@) > 0 \/ branch.id # <<"root">>
                               THEN Append(@, Step("Force", expr, targetValue, "Forced"))
                             ELSE @]
               nextMoves == getImplications(nodes, ast, targetValue)
           IN IF nextMoves.type = "Deterministic"
                THEN solveBranch(nodes, assigned, currentQueue \o nextMoves.nodes)
              ELSE
                LET split == [assigned EXCEPT
                        !.steps = Append(@, Step("Branching", expr, targetValue, "Branch"))]
                    branchA == solveBranch(nodes, createChildBranch(split, "Case 1"),
                                           currentQueue \o nextMoves.branches[1])
                    branchB == solveBranch(nodes, createChildBranch(split, "Case 2"),
                                           currentQueue \o nextMoves.branches[2])
                IN [split EXCEPT !.children = <<branchA, branchB>>,
                                 !.status = splitStatus(branchA, branchB)]

\* checkBranchClosure with the two status tests answering the other way round
checkBranchClosure_Swapped(branch) ==
    IF branch.status = "Closed" THEN FALSE
    ELSE IF branch.status = "Complete" THEN TRUE
    ELSE FALSE

RECURSIVE checkBranchClosure(_)
checkBranchClosure(branch) ==
    IF branch.status = "Closed" THEN TRUE
    ELSE IF branch.status = "Complete" THEN FALSE
    ELSE IF Len(branch.children) > 0
      THEN \A k \in 1..Len(branch.children) : checkBranchClosure(branch.children[k])
    ELSE FALSE

NoCounterExample == [defined |-> FALSE, map |-> EmptyAssignments]

RECURSIVE findCounterExample(_)
RECURSIVE findInChildren(_, _)
findInChildren(children, k) ==
    IF k > Len(children) THEN NoCounterExample
    ELSE LET found == findCounterExample(children[k])
         IN IF found.defined THEN found ELSE findInChildren(children, k + 1)

findCounterExample(branch) ==
    IF branch.status = "Complete" THEN [defined |-> TRUE, map |-> branch.assignments]
    ELSE findInChildren(branch.children, 1)

Assumption(expr, val) == [expr |-> expr, val |-> val]

Report(target, rootBranch, result, counterExample, proofTitle, initialAssumptions) ==
    [present |-> TRUE, target |-> target, rootBranch |-> rootBranch, result |-> result,
     counterExample |-> counterExample, proofTitle |-> proofTitle,
     initialAssumptions |-> initialAssumptions]

\* generateEquivalenceReport testing the case L=T, R=F twice
generateEquivalenceReport_OneCase(nodes, ast) ==
    LET node == nodes[ast + 1]
        rootBranch == [Branch(<<"root">>,
                              <<Step("init-split", node.expression, FALSE, "Assumption")>>,
                              EmptyAssignments) EXCEPT !.status = "Open"]
        branch1 == solveBranch(nodes, createChildBranch(rootBranch, "L=T, R=F"),
                               <<PNode(node.left, TRUE), PNode(node.right, FALSE)>>)
        branch2 == solveBranch(nodes, createChildBranch(rootBranch, "L=F, R=T"),
                               <<PNode(node.left, TRUE), PNode(node.right, FALSE)>>)
        root == [rootBranch EXCEPT !.children = <<branch1, branch2>>]
        isProven == checkBranchClosure(root)
    IN Report("Equivalence", root, IF isProven THEN "Proven" ELSE "Disproven",
              NoCounterExample, "Prove Tautological Equivalence",
              <<Assumption(node.expression, FALSE)>>)

generateEquivalenceReport(nodes, ast) ==
    LET node == nodes[ast + 1]
        rootBranch == [Branch(<<"root">>,
                              <<Step("init-split", node.expression, FALSE, "Assumption")>>,
                              EmptyAssignments) EXCEPT !.status = "Open"]
        branch1 == solveBranch(nodes, createChildBranch(rootBranch, "L=T, R=F"),
                               <<PNode(node.left, TRUE), PNode(node.right, FALSE)>>)
        branch2 == solveBranch(nodes, createChildBranch(rootBranch, "L=F, R=T"),
                               <<PNode(node.left, FALSE), PNode(node.right, TRUE)>>)
        root == [rootBranch EXCEPT !.children = <<branch1, branch2>>]
        isProven == checkBranchClosure(root)
    IN Report("Equivalence", root, IF isProven THEN "Proven" ELSE "Disproven",
              NoCounterExample, "Prove Tautological Equivalence",
              <<Assumption(node.expression, FALSE)>>)

\* the part of generateSTTTReport after the Contingency dispatch
generateSingleReport(nodes, ast, target) ==
    LET node == nodes[ast + 1]
        isImplication == target = "Implication" /\ node.type = "IMPLIES"
                         /\ node.left # NoNode /\ node.right # NoNode
        fallback == target \in {"Implication", "Equivalence"} /\ ~isImplication
        rootQueue == IF target = "Contradiction" THEN <<PNode(ast, TRUE)>>
                     ELSE IF isImplication
                       THEN <<PNode(node.left, TRUE), PNode(node.right, FALSE)>>
                     ELSE <<PNode(ast, FALSE)>>
        initialAssumptions ==
            IF target = "Tautology" THEN <<Assumption(node.expression, FALSE)>>
            ELSE IF target = "Contradiction" THEN <<Assumption(node.expression, TRUE)>>
            ELSE IF isImplication
              THEN <<Assumption(nodes[node.left + 1].expression, TRUE),
                     Assumption(nodes[node.right + 1].expression, FALSE)>>
            ELSE <<>>
        proofTitle == IF fallback THEN "Prove Tautology (Fallback)"
                      ELSE IF target = "Tautology" THEN "Prove Tautology"
                      ELSE IF target = "Contradiction" THEN "Prove Absurdity (Contradiction)"
                      ELSE "Prove Argument Validity (T.I.)"
        resultBranch == solveBranch(nodes, Branch(<<"root">>, <<>>, EmptyAssignments), rootQueue)
        isProven == checkBranchClosure(resultBranch)
    IN Report(IF fallback THEN "Tautology" ELSE target, resultBranch,
              IF isProven THEN "Proven" ELSE "Disproven",
              IF isProven THEN NoCounterExample ELSE findCounterExample(resultBranch),
              proofTitle, initialAssumptions)

\* generateContingencyReport showing the Contradiction attempt's tree when
\* both attempts fail
generateContingencyReport_OtherTree(nodes, ast) ==
    LET expr == nodes[ast + 1].expression
        tReport == generateSingleReport(nodes, ast, "Tautology")
        cReport == generateSingleReport(nodes, ast, "Contradiction")
    IN IF tReport.result = "Proven"
         THEN Report("Contingency", tReport.rootBranch, "Disproven", NoCounterExample,
                     "Check Contingency", <<Assumption(expr, FALSE)>>)
       ELSE IF cReport.result = "Proven"
         THEN Report("Contingency", cReport.rootBranch, "Disproven", NoCounterExample,
                     "Check Contingency", <<Assumption(expr, TRUE)>>)
       ELSE Report("Contingency", cReport.rootBranch, "Proven", NoCounterExample,
                   "Check Contingency", <<Assumption(expr, FALSE)>>)

generateContingencyReport(nodes, ast) ==
    LET expr == nodes[ast + 1].expression
        tReport == generateSingleReport(nodes, ast, "Tautology")
        cReport == generateSingleReport(nodes, ast, "Contradiction")
    IN IF tReport.result = "Proven"
         THEN Report("Contingency", tReport.rootBranch, "Disproven", NoCounterExample,
                     "Check Contingency", <<Assumption(expr, FALSE)>>)
       ELSE IF cReport.result = "Proven"
         THEN Report("Contingency", cReport.rootBranch, "Disproven", NoCounterExample,
                     "Check Contingency", <<Assumption(expr, TRUE)>>)
       ELSE Report("Contingency", tReport.rootBranch, "Proven", NoCounterExample,
                   "Check Contingency", <<Assumption(expr, FALSE)>>)

generateSTTTReport(nodes, ast, target) ==
    IF target = "Contingency" THEN generateContingencyReport(nodes, ast)
    ELSE IF target = "Equivalence" /\ nodes[ast + 1].type = "IFF"
            /\ nodes[ast + 1].left # NoNode /\ nodes[ast + 1].right # NoNode
      THEN generateEquivalenceReport(nodes, ast)
    ELSE generateSingleReport(nodes, ast, target)

\* ---------------------------------------------------------- application
VARIABLES expression, selectedVars, settings, analysis, errorMessage, report, edits,
          kmVariables, kmRows, kmData,
          txText, txStage, txTokens, txDiag, txParsed, txContext, txValue, txForms,
          sbQueue, sbBranch

appVars == <<expression, selectedVars, settings, analysis, errorMessage, report, edits>>
kmVars == <<kmVariables, kmRows, kmData>>
txVars == <<txText, txStage, txTokens, txDiag, txParsed, txContext, txValue, txForms>>
sbVars == <<sbQueue, sbBranch>>
vars == <<appVars, kmVars, txVars, sbVars>>

NoAnalysis == [present |-> FALSE]
NoReport == [present |-> FALSE]
NoParse == [pos |-> 0, nodes |-> <<>>, node |-> NoNode]
EmptyContext == [v \in {} |-> FALSE]

\* solveBranch has not been run on its own
SolveIdle ==
    /\ sbQueue = <<>>
    /\ sbBranch = Branch(<<"root">>, <<>>, EmptyAssignments)

\* no text is being processed on its own
TextIdle ==
    /\ txText = <<>>
    /\ txStage = "text"
    /\ txTokens = <<>>
    /\ txDiag = NULL
    /\ txParsed = NoParse
    /\ txContext = EmptyContext
    /\ txValue = FALSE
    /\ txForms = NoForms

\* the variable buttons offered (VariableSelector's first presets)
PRESETS == <<"A", "B", "C", "D", "E">>
MaxDeclared == 2
Declarable == {PRESETS[k] : k \in 1..MaxDeclared}

\* the characters the model types into the expression field
InputChars == {"A", "B", "1", SYM_NOT, SYM_AND, SYM_OR, SYM_IMPLIES, SYM_IFF, SYM_XOR,
               "(", ")"}
ProofChars == InputChars \ {"1"}

ProofTargets == {"Tautology", "Contradiction", "Contingency", "Implication", "Equivalence"}

Init ==
    /\ expression = <<>>
    /\ selectedVars = <<>>
    /\ settings = DEFAULT_SETTINGS
    /\ analysis = NoAnalysis
    /\ errorMessage = NULL
    /\ report = NoReport
    /\ edits = 0
    /\ kmVariables = <<>>
    /\ kmRows = <<>>
    /\ kmData = NoKMap
    /\ TextIdle
    /\ SolveIdle

Composing == ~analysis.present /\ errorMessage = NULL

\* ExpressionInput.onChange: one more character typed
TypeChar(ch, max) ==
    /\ Composing
    /\ Len(expression) < max
    /\ expression' = Append(expression, ch)
    /\ UNCHANGED <<selectedVars, settings, analysis, errorMessage, report, edits, kmVars, txVars, sbVars>>

\* VariableSelector.toggleVar
toggleVar(v) ==
    /\ Composing
    /\ selectedVars' = IF SeqHas(selectedVars, v)
                         THEN SortNames({selectedVars[k] : k \in 1..Len(selectedVars)} \ {v})
                       ELSE SortNames({selectedVars[k] : k \in 1..Len(selectedVars)} \cup {v})
    /\ UNCHANGED <<expression, settings, analysis, errorMessage, report, edits, kmVars, txVars, sbVars>>

\* SettingsSheet.onUpdate for the two options the engine reads
updateSettings(s) ==
    /\ Composing
    /\ s # settings
    /\ settings' = s
    /\ UNCHANGED <<expression, selectedVars, analysis, errorMessage, report, edits, kmVars, txVars, sbVars>>

handleGenerate ==
    /\ Composing
    /\ LET outcome == analyzeLogic(expression, selectedVars, settings)
       IN IF outcome.ok
            THEN analysis' = outcome.result /\ errorMessage' = NULL
          ELSE errorMessage' = outcome.error /\ UNCHANGED analysis
    /\ UNCHANGED <<expression, selectedVars, settings, report, edits, kmVars, txVars, sbVars>>

\* App.handleRowChange
handleRowChange(updatedRow, changedCol) ==
    LET finalRow == IF changedCol.isInput
                      THEN recalculateRow(updatedRow, analysis.columns, analysis.nodes,
                                          analysis.ast)
                    ELSE updatedRow
        newRows == [k \in 1..Len(analysis.rows) |->
                       IF analysis.rows[k].id = finalRow.id THEN finalRow
                       ELSE analysis.rows[k]]
    IN reanalyzeFromRows(analysis, newRows)

\* newRow of TruthTable.handleCellClick: the clicked cell negated
toggledRow(row, col) ==
    [row EXCEPT !.values = ObjSet(@, col.expression, ~ObjGet(row.values, col.expression))]

\* TruthTable.handleCellClick on the cell of row r and column c
handleCellClick(r, c) ==
    /\ analysis.present
    /\ edits < MaxEdits
    /\ r \in 1..Len(analysis.rows)
    /\ c \in 1..Len(analysis.columns)
    /\ analysis' = handleRowChange(toggledRow(analysis.rows[r], analysis.columns[c]),
                                    analysis.columns[c])
    /\ edits' = edits + 1
    /\ UNCHANGED <<expression, selectedVars, settings, errorMessage, report, kmVars, txVars, sbVars>>

handleReset ==
    /\ ~Composing
    /\ expression' = <<>>
    /\ selectedVars' = <<>>
    /\ analysis' = NoAnalysis
    /\ errorMessage' = NULL
    /\ report' = NoReport
    /\ edits' = 0
    /\ UNCHANGED <<settings, kmVars, txVars, sbVars>>

\* STTTInteractive: the effect that runs generateSTTTReport for the chosen
\* proof target on the analysed tree
runProof(target) ==
    /\ analysis.present
    /\ report' = generateSTTTReport(analysis.nodes, analysis.ast, target)
    /\ UNCHANGED <<expression, selectedVars, settings, analysis, errorMessage, edits, kmVars, txVars, sbVars>>

Next ==
    \/ \E ch \in InputChars : TypeChar(ch, MaxExprLen)
    \/ \E v \in Declarable : toggleVar(v)
    \/ \E o \in {"0->1", "1->0"}, b \in BOOLEAN : updateSettings(Settings(o, b))
    \/ handleGenerate
    \/ \E r \in 1..Pow2(MaxDeclared), c \in 1..(MaxDeclared + MaxExprLen) : handleCellClick(r, c)
    \/ handleReset

Spec == Init /\ [][Next]_vars

NextSTTT ==
    \/ \E ch \in ProofChars : TypeChar(ch, MaxProofLen)
    \/ \E v \in Declarable : toggleVar(v)
    \/ handleGenerate
    \/ \E t \in ProofTargets : runProof(t)

SpecSTTT == Init /\ [][NextSTTT]_vars

\* -------------------------------------------------------- solver alone
\* solveBranch applied to a fresh root and any queue of up to MaxQueueLen
\* obligations on the nodes of the analysed tree
MaxQueueLen == 3

Obligations(nodes) == {PNode(id, val) : id \in 0..(Len(nodes) - 1), val \in BOOLEAN}

Queues(nodes) == UNION {[1..n -> Obligations(nodes)] : n \in 1..MaxQueueLen}

runSolve(todoQueue) ==
    /\ analysis.present
    /\ sbQueue' = todoQueue
    /\ sbBranch' = solveBranch(analysis.nodes, Branch(<<"root">>, <<>>, EmptyAssignments),
                               todoQueue)
    /\ UNCHANGED <<appVars, kmVars, txVars>>

NextSolve ==
    \/ \E ch \in ProofChars : TypeChar(ch, MaxExprLen)
    \/ \E v \in Declarable : toggleVar(v)
    \/ handleGenerate
    \/ \E todoQueue \in (IF analysis.present THEN Queues(analysis.nodes) ELSE {}) :
          runSolve(todoQueue)

SpecSolve == Init /\ [][NextSolve]_vars

\* ------------------------------------------------- K-Map generator alone
\* generateKMap applied to the rows of any truth function of 2 to 4
\* variables: the rows analyzeLogic builds in order 0->1 for a formula whose
\* output column, keyed OutKey, takes the values f
OutKey == <<"(", "F", ")">>

tableRows(variables, f) ==
    [k \in 1..Pow2(Len(variables)) |->
        [id |-> k - 1, index |-> k - 1,
         values |-> [j \in 1..Len(variables) |->
                        [key |-> <<variables[j]>>,
                         val |-> Bit(k - 1, Len(variables) - j) = 1]]
                    \o <<[key |-> OutKey, val |-> f[k - 1]]>>]]

\* how often the rarer output value of a truth function occurs
Minority(f) ==
    LET ones == Cardinality({m \in DOMAIN f : f[m]})
        zeros == Cardinality(DOMAIN f) - ones
    IN IF ones <= zeros THEN ones ELSE zeros

InitKMap ==
    /\ expression = <<>>
    /\ selectedVars = <<>>
    /\ settings = DEFAULT_SETTINGS
    /\ analysis = NoAnalysis
    /\ errorMessage = NULL
    /\ report = NoReport
    /\ edits = 0
    /\ \E n \in MinKMapVars..MaxKMapVars :
          /\ kmVariables = SubSeq(PRESETS, 1, n)
          /\ \E f \in [0..(Pow2(n) - 1) -> BOOLEAN] :
                /\ Minority(f) <= MaxMinority
                /\ kmRows = tableRows(kmVariables, f)
    /\ kmData = NoKMap
    /\ TextIdle
    /\ SolveIdle

drawKMap ==
    /\ ~kmData.defined
    /\ kmData' = generateKMap(kmVariables, kmRows)
    /\ UNCHANGED <<appVars, kmVariables, kmRows, txVars, sbVars>>

clearKMap ==
    /\ kmData.defined
    /\ kmData' = NoKMap
    /\ UNCHANGED <<appVars, kmVariables, kmRows, txVars, sbVars>>

NextKMap == drawKMap \/ clearKMap

SpecKMap == InitKMap /\ [][NextKMap]_vars

\* ------------------------------------------- tokenizer to parser alone
\* tokenize, validateSyntax and Parser.parse applied, in the order of
\* analyzeLogic, to a text drawn from the families below
MaxTextLen == 4

\* every text of up to MaxTextLen characters
FreeTexts == UNION {[1..n -> InputChars] : n \in 0..MaxTextLen}

Operands == {"A", "B"}
BinarySymbols == {SYM_AND, SYM_OR, SYM_IMPLIES, SYM_IFF, SYM_XOR}

\* x o y p z, x o (y p z) and (x o y) p z
Chains ==
    {<<x, o, y, p, z>> : x \in Operands, y \in Operands, z \in Operands,
                         o \in BinarySymbols, p \in BinarySymbols}
RightGrouped ==
    {<<x, o, "(", y, p, z, ")">> : x \in Operands, y \in Operands, z \in Operands,
                                   o \in BinarySymbols, p \in BinarySymbols}
LeftGrouped ==
    {<<"(", x, o, y, ")", p, z>> : x \in Operands, y \in Operands, z \in Operands,
                                   o \in BinarySymbols, p \in BinarySymbols}

\* the spellings a user may type for each connective
Aliases(conn) ==
    CASE conn = "NOT" -> {<<SYM_NOT>>, <<"!">>, <<"~">>, <<"-">>}
      [] conn = "AND" -> {<<SYM_AND>>, <<"&">>, <<"&", "&">>, <<"A", "N", "D">>}
      [] conn = "OR" -> {<<SYM_OR>>, <<"|">>, <<"+">>, <<"|", "|">>, <<"O", "R">>}
      [] conn = "IMPLIES" -> {<<SYM_IMPLIES>>, <<"-", ">">>, <<"=", ">">>,
                              <<"I", "M", "P", "L", "I", "E", "S">>}
      [] conn = "IFF" -> {<<SYM_IFF>>, <<"<", "-", ">">>, <<"<", "=", ">">>, <<"I", "F", "F">>}
      [] conn = "XOR" -> {<<SYM_XOR>>, <<"^">>, <<"X", "O", "R">>}

BinaryTypes == {"AND", "OR", "IMPLIES", "IFF", "XOR"}

\* a spelling of a binary connective between two letters, and a spelling of
\* the negation before a letter
AliasTexts ==
    {<<x>> \o a \o <<y>> : x \in Letters, y \in Letters,
                            a \in UNION {Aliases(conn) : conn \in BinaryTypes}}
    \cup {a \o <<y>> : y \in Letters, a \in Aliases("NOT")}

\* a letter in either case followed by up to two digits, and a digit alone
NameLetters == {"A", "P", "a", "p"}
Digits == {"0", "1", "2"}
VariableTexts ==
    {<<l>> : l \in NameLetters}
    \cup {<<l, d>> : l \in NameLetters, d \in Digits}
    \cup {<<l, d, e>> : l \in NameLetters, d \in Digits, e \in Digits}
    \cup {<<d>> : d \in Digits}

\* every text of up to MaxTextLen characters over the three bracket families
BracketChars == {"A", SYM_AND, SYM_NOT, "(", ")", "[", "]", "{", "}"}
BracketTexts == UNION {[1..n -> BracketChars] : n \in 0..MaxTextLen}

TextInputs ==
    FreeTexts \cup Chains \cup RightGrouped \cup LeftGrouped \cup AliasTexts
        \cup VariableTexts \cup BracketTexts

InitText ==
    /\ expression = <<>>
    /\ selectedVars = <<>>
    /\ settings = DEFAULT_SETTINGS
    /\ analysis = NoAnalysis
    /\ errorMessage = NULL
    /\ report = NoReport
    /\ edits = 0
    /\ kmVariables = <<>>
    /\ kmRows = <<>>
    /\ kmData = NoKMap
    /\ SolveIdle
    /\ txText \in TextInputs
    /\ txStage = "text"
    /\ txTokens = <<>>
    /\ txDiag = NULL
    /\ txParsed = NoParse
    /\ txContext = EmptyContext
    /\ txValue = FALSE
    /\ txForms = NoForms

runTokenize ==
    /\ txStage = "text"
    /\ txTokens' = tokenize(txText)
    /\ txStage' = "tokens"
    /\ UNCHANGED <<appVars, kmVars, txText, txDiag, txParsed, txContext, txValue, txForms, sbVars>>

runValidate ==
    /\ txStage = "tokens"
    /\ txDiag' = validateSyntax(txTokens)
    /\ txStage' = "validated"
    /\ UNCHANGED <<appVars, kmVars, txText, txTokens, txParsed, txContext, txValue, txForms, sbVars>>

runParse ==
    /\ txStage = "validated"
    /\ txDiag = NULL
    /\ txParsed' = parse(txTokens)
    /\ txStage' = "parsed"
    /\ UNCHANGED <<appVars, kmVars, txText, txTokens, txDiag, txContext, txValue, txForms, sbVars>>

\* the contexts offered to evaluateAST: the assignments of any part of Operands
Contexts == UNION {[D -> BOOLEAN] : D \in SUBSET Operands}

runEvaluate(context) ==
    /\ txStage = "parsed"
    /\ txContext' = context
    /\ txValue' = evaluateAST(txParsed.nodes, txParsed.node, context)
    /\ txStage' = "evaluated"
    /\ UNCHANGED <<appVars, kmVars, txText, txTokens, txDiag, txParsed, txForms, sbVars>>

NegationHandlings == {"preserve", "normalize", "simplify"}

\* the implicationForms field of the result of analyzeLogic
runForms(negationHandling) ==
    /\ txStage = "parsed"
    /\ txForms' = formatForms(generateImplicationForms(txParsed.nodes, txParsed.node),
                              negationHandling)
    /\ txStage' = "forms"
    /\ UNCHANGED <<appVars, kmVars, txText, txTokens, txDiag, txParsed, txContext, txValue, sbVars>>

NextText ==
    \/ runTokenize
    \/ runValidate
    \/ runParse
    \/ \E context \in Contexts : runEvaluate(context)
    \/ \E negationHandling \in NegationHandlings : runForms(negationHandling)

SpecText == InitText /\ [][NextText]_vars

\* ----------------------------------------------- proofs of nested formulas
\* the proof engine run on the formulas with two connectives over A and B,
\* typed with both variables declared
NestedFormulas == Chains \cup RightGrouped \cup LeftGrouped

InitProof ==
    /\ expression \in NestedFormulas
    /\ selectedVars = <<"A", "B">>
    /\ settings = DEFAULT_SETTINGS
    /\ analysis = NoAnalysis
    /\ errorMessage = NULL
    /\ report = NoReport
    /\ edits = 0
    /\ kmVariables = <<>>
    /\ kmRows = <<>>
    /\ kmData = NoKMap
    /\ TextIdle
    /\ SolveIdle

NextProof ==
    \/ handleGenerate
    \/ \E t \in ProofTargets : runProof(t)

SpecProof == InitProof /\ [][NextProof]_vars


\* =============================================================== claims
\* ------------------------------------------------ brute-force reference
\* the variables of a tree: the values of its VAR nodes that are no constant
TreeVariables(nodes) ==
    {nodes[k].value : k \in {j \in 1..Len(nodes) :
        nodes[j].type = "VAR" /\ nodes[j].value \notin {"0", "1"}}}

\* the 2^n assignments of the variables of a tree
Assignments(nodes) == [TreeVariables(nodes) -> BOOLEAN]

AlwaysTrue(nodes, ast) == \A ctx \in Assignments(nodes) : evaluateAST(nodes, ast, ctx)
AlwaysFalse(nodes, ast) == \A ctx \in Assignments(nodes) : ~evaluateAST(nodes, ast, ctx)

\* a counter-example map gives every variable occurrence it mentions one value
ConsistentMap(nodes, map) ==
    \A i, j \in DOMAIN map :
        (nodes[i + 1].type = "VAR" /\ nodes[j + 1].type = "VAR"
         /\ nodes[i + 1].value = nodes[j + 1].value) => map[i] = map[j]

\* an assignment agrees with the map on every variable occurrence it mentions
Agrees(nodes, map, ctx) ==
    \A i \in DOMAIN map :
        (nodes[i + 1].type = "VAR" /\ nodes[i + 1].value \in DOMAIN ctx)
            => ctx[nodes[i + 1].value] = map[i]

Proved(target) == report.present /\ report.target = target /\ report.result = "Proven"
Disproved(target) == report.present /\ report.target = target /\ report.result = "Disproven"

\* C1: a Tautology report is Proven exactly when the formula is true under
\* every assignment, and a Contradiction report is Proven exactly when it is
\* false under every assignment.
C1_ProvenIffBruteForce ==
    (report.present /\ analysis.present) =>
        /\ report.target = "Tautology" =>
              (report.result = "Proven" <=> AlwaysTrue(analysis.nodes, analysis.ast))
        /\ report.target = "Contradiction" =>
              (report.result = "Proven" <=> AlwaysFalse(analysis.nodes, analysis.ast))

\* C2: the counter-example of a Disproven Tautology (Contradiction) report
\* gives each variable one value and can be completed to an assignment under
\* which the formula is false (true).
C2_CounterExampleFalsifies ==
    (analysis.present /\ (Disproved("Tautology") \/ Disproved("Contradiction"))) =>
        /\ report.counterExample.defined
        /\ ConsistentMap(analysis.nodes, report.counterExample.map)
        /\ \E ctx \in Assignments(analysis.nodes) :
              /\ Agrees(analysis.nodes, report.counterExample.map, ctx)
              /\ evaluateAST(analysis.nodes, analysis.ast, ctx)
                     = (report.target = "Contradiction")

\* C3: tableau soundness: a Tautology report that is Proven is about a
\* formula true under every assignment; no non-tautology is reported Proven.
C3_TableauSound ==
    (analysis.present /\ Proved("Tautology")) => AlwaysTrue(analysis.nodes, analysis.ast)

\* a non-tautology with a branching connective went through the Tautology
\* attempt and was not reported Proven
C3_NonTautologyRejected ==
    /\ analysis.present
    /\ Disproved("Tautology")
    /\ ~AlwaysTrue(analysis.nodes, analysis.ast)
    /\ Len(report.rootBranch.children) = 2

\* ---- table claims
\* the key of the output column of an analysis
OutputKey(a) ==
    a.columns[CHOOSE k \in 1..Len(a.columns) : a.columns[k].isOutput].expression

OutputValue(a, row) == ObjGet(row.values, OutputKey(a))

\* binary value of the input cells of a row, first declared variable first
RECURSIVE AssignmentIndexFrom(_, _, _)
AssignmentIndexFrom(variables, values, i) ==
    IF i > Len(variables) THEN 0
    ELSE (IF ObjGet(values, <<variables[i]>>) THEN 2 ^ (Len(variables) - i) ELSE 0)
         + AssignmentIndexFrom(variables, values, i + 1)

AssignmentIndex(a, row) == AssignmentIndexFrom(a.variables, row.values, 1)

InputAssignment(a, row) ==
    [v \in {a.variables[k] : k \in 1..Len(a.variables)} |-> ObjGet(row.values, <<v>>)]

Outputs(a) == [k \in 1..Len(a.rows) |-> OutputValue(a, a.rows[k])]

\* C4: in every analysis, fresh or re-analysed after cell edits, the
\* classification is Tautology iff the output column is true in every row,
\* Contradiction iff it is false in every row, and Contingency otherwise;
\* there is at least one row, so exactly one case applies.
C4_ClassificationMatchesRows ==
    analysis.present =>
        LET allTrue == \A k \in 1..Len(analysis.rows) : OutputValue(analysis, analysis.rows[k])
            allFalse == \A k \in 1..Len(analysis.rows) : ~OutputValue(analysis, analysis.rows[k])
        IN /\ Len(analysis.rows) >= 1
           /\ analysis.classification \in {"Tautology", "Contradiction", "Contingency"}
           /\ analysis.classification = "Tautology" <=> allTrue
           /\ analysis.classification = "Contradiction" <=> allFalse
           /\ analysis.classification = "Contingency" <=> (~allTrue /\ ~allFalse)

\* a table of zero variables whose single output cell, true by the formula,
\* was edited to false
C4_EditedConstantTable ==
    /\ analysis.present /\ edits > 0
    /\ Len(analysis.variables) = 0 /\ Len(analysis.rows) = 1
    /\ AlwaysTrue(analysis.nodes, analysis.ast)
    /\ analysis.classification = "Contradiction"

\* C5: an unedited table has 2^n rows; row k (from 0) carries the assignment
\* of binary value k under 0->1 and 2^n - 1 - k under 1->0, the first declared
\* variable being the most significant bit, and its output is the value of
\* the formula under that assignment, whatever the order.
C5_RowsEnumerateAssignments ==
    (analysis.present /\ edits = 0) =>
        LET n == Len(analysis.variables)
        IN /\ Len(analysis.rows) = 2 ^ n
           /\ \A k \in 1..Len(analysis.rows) :
                 /\ AssignmentIndex(analysis, analysis.rows[k]) =
                        IF settings.rowOrder = "0->1" THEN k - 1 ELSE 2 ^ n - k
                 /\ OutputValue(analysis, analysis.rows[k]) =
                        evaluateAST(analysis.nodes, analysis.ast,
                                    InputAssignment(analysis, analysis.rows[k]))

\* A imp B over [A, B] in order 0->1
C5_ImplicationTable ==
    /\ analysis.present /\ edits = 0
    /\ expression = <<"A", SYM_IMPLIES, "B">>
    /\ analysis.variables = <<"A", "B">>
    /\ settings.rowOrder = "0->1"
    /\ Outputs(analysis) = <<TRUE, TRUE, FALSE, TRUE>>

\* ---- parser claims
\* the variables the formula text uses
UsedVariables ==
    LET tokens == tokenize(expression)
    IN {tokens[k].value : k \in {j \in 1..Len(tokens) :
            tokens[j].type = "VAR" /\ tokens[j].value \notin {"0", "1"}}}

SeqRange(q) == {q[k] : k \in 1..Len(q)}

Generated == analysis.present \/ errorMessage # NULL

\* C6: on a syntactically valid formula with an undeclared variable the
\* analysis fails, naming exactly the used-but-undeclared variables, and no
\* result exists; and in every result each VAR node of the tree is a constant
\* or a declared variable.
C6_UndeclaredNamedOrTreeDeclared ==
    /\ (Generated /\ validateSyntax(tokenize(expression)) = NULL
          /\ UsedVariables \ SeqRange(selectedVars) # {}) =>
            /\ ~analysis.present
            /\ errorMessage.msg = "used but not declared"
            /\ SeqRange(errorMessage.args) = UsedVariables \ SeqRange(selectedVars)
    /\ analysis.present =>
            \A k \in 1..Len(analysis.nodes) :
                analysis.nodes[k].type = "VAR" =>
                    \/ analysis.nodes[k].value \in {"0", "1"}
                    \/ analysis.nodes[k].value \in SeqRange(analysis.variables)

\* the nodes of the tree rooted at id
RECURSIVE Subtree(_, _)
Subtree(nodes, id) ==
    IF id = NoNode THEN {}
    ELSE {id} \cup Subtree(nodes, nodes[id + 1].left)
              \cup Subtree(nodes, nodes[id + 1].right)
              \cup Subtree(nodes, nodes[id + 1].operand)

\* C7: when the validator accepts the tokens and an analysis is returned,
\* the parse stopped at EOF, made no placeholder '?' node, and every node it
\* built belongs to the returned tree (the code has no parse error to raise).
C7_ParseAccountsForEveryToken ==
    analysis.present =>
        LET tokens == tokenize(expression)
            parsed == parse(tokens)
        IN /\ parsed.pos = Len(tokens) - 1
           /\ \A k \in 1..Len(parsed.nodes) : parsed.nodes[k].value # "?"
           /\ Subtree(parsed.nodes, parsed.node) = 0..(Len(parsed.nodes) - 1)

\* ---- K-Map claims
KMapCells(km) == {rc \in (1..Len(km.grid)) \X (1..Len(km.grid[1])) : TRUE}

\* C8: with 2 to 4 declared variables the cell of minterm m holds the output
\* value of the row whose inputs encode m; otherwise there is no K-Map.
C8_KMapCellIsRowOutput ==
    analysis.present =>
        IF Len(analysis.variables) \in 2..4
          THEN /\ analysis.kMapData.defined
               /\ \A rc \in KMapCells(analysis.kMapData) :
                     LET cell == analysis.kMapData.grid[rc[1]][rc[2]]
                         hits == {k \in 1..Len(analysis.rows) :
                                     AssignmentIndex(analysis, analysis.rows[k])
                                         = cell.mintermIndex}
                     IN Cardinality(hits) = 1 =>
                            \A k \in hits : cell.value = OutputValue(analysis, analysis.rows[k])
        ELSE ~analysis.kMapData.defined

GroupCells(km) ==
    UNION {{<<g.cells[k].r + 1, g.cells[k].c + 1>> : k \in 1..Len(g.cells)} :
              g \in SeqRange(km.groups)}

TrueCells(km) == {rc \in KMapCells(km) : km.grid[rc[1]][rc[2]].value}

\* C9: the cells of the groups of a K-Map are exactly its true cells.
C9_GroupsCoverTrueCells ==
    kmData.defined => GroupCells(kmData) = TrueCells(kmData)

\* a four-variable map with the wrap-around group of the four corners
C9_FourCornersGroup ==
    /\ kmData.defined /\ Len(kmVariables) = 4
    /\ \E g \in SeqRange(kmData.groups) :
          {<<g.cells[k].r, g.cells[k].c>> : k \in 1..Len(g.cells)}
              = {<<0, 0>>, <<0, 3>>, <<3, 0>>, <<3, 3>>}
    /\ Len(kmData.groups) >= 2

\* the literals of a term: variable name and sign
RECURSIVE Literals(_, _)
Literals(term, i) ==
    IF i > Len(term) THEN {}
    ELSE IF term[i] = SYM_NOT
      THEN {[name |-> term[i + 1], positive |-> FALSE]} \cup Literals(term, i + 2)
    ELSE {[name |-> term[i], positive |-> TRUE]} \cup Literals(term, i + 1)

\* the term read as a conjunction, under the assignment of minterm m
TermHolds(term, variables, m) ==
    \/ term = <<"1">>
    \/ \A lit \in Literals(term, 1) :
          \E j \in 1..Len(variables) :
              /\ variables[j] = lit.name
              /\ ((m \div 2 ^ (Len(variables) - j)) % 2 = 1) <=> lit.positive

GroupMinterms(km, g) ==
    {km.grid[g.cells[k].r + 1][g.cells[k].c + 1].mintermIndex : k \in 1..Len(g.cells)}

TermsExact(km) ==
    \A g \in SeqRange(km.groups) :
        \A m \in 0..(2 ^ Len(km.variables) - 1) :
            TermHolds(g.term, km.variables, m) <=> m \in GroupMinterms(km, g)

\* C10: each group's term holds on exactly the group's minterms, and the
\* minimized expression is '0' when no cell is true, '1' when every cell is.
C10_TermsAndConstantMaps ==
    (analysis.present /\ analysis.kMapData.defined) =>
        /\ TermsExact(analysis.kMapData)
        /\ TrueCells(analysis.kMapData) = {} =>
              analysis.kMapData.minimizedExpression = <<"0">>
        /\ TrueCells(analysis.kMapData) = KMapCells(analysis.kMapData) =>
              analysis.kMapData.minimizedExpression = <<"1">>

\* ---- cell-edit claims
\* the value the table shows in row r, column c
CellValue(a, r, c) == ObjGet(a.rows[r].values, a.columns[c].expression)

\* the step is a click on the cell of row r and column c
IsClickOn(r, c) ==
    /\ analysis.present /\ edits' = edits + 1
    /\ r \in 1..Len(analysis.rows) /\ c \in 1..Len(analysis.columns)
    /\ analysis' = handleRowChange(toggledRow(analysis.rows[r], analysis.columns[c]),
                                   analysis.columns[c])

\* what a click on the cell of row r and column c is said to do
ClickEffect(r, c) ==
    /\ \A r2 \in 1..Len(analysis.rows) : r2 # r => analysis'.rows[r2] = analysis.rows[r2]
    /\ CellValue(analysis', r, c) = ~CellValue(analysis, r, c)
    /\ \A c2 \in 1..Len(analysis.columns) : c2 # c =>
          IF analysis.columns[c].isInput /\ ~analysis.columns[c2].isInput
            THEN CellValue(analysis', r, c2) =
                     evaluateAST(analysis.nodes, analysis.columns[c2].astId,
                                 InputAssignment(analysis', analysis'.rows[r]))
          ELSE CellValue(analysis', r, c2) = CellValue(analysis, r, c2)

\* C11: a click on an output or intermediate cell changes that cell only; a
\* click on an input cell changes it and recomputes every derived cell of
\* the row from the new inputs; every other row is left as it was.
C11_ClickChangesOnlyItsCell ==
    [][\A r \in 1..(2 ^ MaxDeclared) : \A c \in 1..(MaxDeclared + MaxExprLen) :
           IsClickOn(r, c) => ClickEffect(r, c)]_vars

Recalculated(a, r) == recalculateRow(a.rows[r], a.columns, a.nodes, a.ast)

\* C12: recalculateRow keeps the id, the index and the input cells of a row,
\* sets every derived cell to the value of its sub-expression under the
\* row's inputs, is idempotent, and leaves every row of analyzeLogic as is.
C12_RecalculateRowRecomputesDerived ==
    analysis.present =>
        \A r \in 1..Len(analysis.rows) :
            LET row == analysis.rows[r]
                out == Recalculated(analysis, r)
            IN /\ out.id = row.id /\ out.index = row.index
               /\ \A c \in 1..Len(analysis.columns) :
                     LET col == analysis.columns[c]
                     IN ObjGet(out.values, col.expression) =
                            IF col.isInput THEN ObjGet(row.values, col.expression)
                            ELSE evaluateAST(analysis.nodes, col.astId,
                                             InputAssignment(analysis, row))
               /\ recalculateRow(out, analysis.columns, analysis.nodes, analysis.ast) = out
               /\ edits = 0 => out = row

\* after one click on an input cell, a row whose inputs are no longer those
\* of its position and whose output was recomputed to a different value
C12_InputClickRecomputed ==
    /\ analysis.present /\ edits = 1
    /\ \E r \in 1..Len(analysis.rows) :
          /\ InputAssignment(analysis, analysis.rows[r])
                 # rowContext(analysis.variables, settings, r - 1)
          /\ Recalculated(analysis, r) = analysis.rows[r]
          /\ OutputValue(analysis, analysis.rows[r])
                 # evaluateAST(analysis.nodes, analysis.ast,
                               rowContext(analysis.variables, settings, r - 1))

\* C13: in an unedited table, under either row order, the index of a row is
\* the binary value of its assignment, first declared variable first.
C13_RowIndexIsAssignmentValue ==
    (analysis.present /\ edits = 0) =>
        \A r \in 1..Len(analysis.rows) :
            analysis.rows[r].index = AssignmentIndex(analysis, analysis.rows[r])

\* ---- grammar claims
\* the grammar as a relation: tokens i..j, read at a precedence level (1 to 5
\* the binary levels IFF, IMPLIES, XOR, OR, AND, 6 negation, 7 factor), are
\* the tree rooted at id; binary operators take their left operand at their
\* own level and their right operand one level up
RECURSIVE Derives(_, _, _, _, _, _)
Derives(nodes, tokens, level, i, j, id) ==
    IF i > j \/ id = NoNode THEN FALSE
    ELSE IF level <= 5 THEN
        \/ Derives(nodes, tokens, level + 1, i, j, id)
        \/ /\ nodes[id + 1].type = LevelType(level)
           /\ \E k \in (i + 1)..(j - 1) :
                 /\ tokens[k].type = LevelType(level)
                 /\ Derives(nodes, tokens, level, i, k - 1, nodes[id + 1].left)
                 /\ Derives(nodes, tokens, level + 1, k + 1, j, nodes[id + 1].right)
    ELSE IF level = 6 THEN
        \/ Derives(nodes, tokens, 7, i, j, id)
        \/ /\ tokens[i].type = "NOT" /\ nodes[id + 1].type = "NOT"
           /\ Derives(nodes, tokens, 6, i + 1, j, nodes[id + 1].operand)
    ELSE
        \/ /\ i = j /\ tokens[i].type = "VAR"
           /\ nodes[id + 1].type = "VAR" /\ nodes[id + 1].value = tokens[i].value
        \/ /\ i < j /\ isOpen(tokens[i]) /\ tokens[j].type = expectedClose(tokens[i].type)
           /\ Derives(nodes, tokens, 1, i + 1, j - 1, id)

\* the tokens that stand for a node: everything but brackets and EOF
NodeTokens(tokens) ==
    {k \in 1..Len(tokens) :
        tokens[k].type \in {"VAR", "NOT", "AND", "OR", "IMPLIES", "IFF", "XOR"}}

\* C14: the tree parsed from validator-accepted tokens is the one the grammar
\* gives (precedence IFF < IMPLIES < XOR < OR < AND < NOT < factor, binary
\* operators left-associative), with one node per variable, constant and
\* operator token, so one per NOT, and none for a bracket.
C14_ParseFollowsGrammar ==
    txStage = "parsed" =>
        /\ Derives(txParsed.nodes, txTokens, 1, 1, Len(txTokens) - 1, txParsed.node)
        /\ Len(txParsed.nodes) = Cardinality(NodeTokens(txTokens))

\* ---- evaluator claims
\* the reference semantics, by cases on the operands
RECURSIVE RefValue(_, _, _)
RefValue(nodes, id, ctx) ==
    LET node == nodes[id + 1]
        l == RefValue(nodes, node.left, ctx)
        r == RefValue(nodes, node.right, ctx)
    IN CASE node.type = "VAR" ->
                node.value = "1"
                    \/ (node.value # "0" /\ node.value \in DOMAIN ctx /\ ctx[node.value])
         [] node.type = "NOT" -> IF RefValue(nodes, node.operand, ctx) THEN FALSE ELSE TRUE
         [] node.type = "AND" -> IF l THEN r ELSE FALSE
         [] node.type = "OR" -> IF l THEN TRUE ELSE r
         [] node.type = "IMPLIES" -> IF l THEN r ELSE TRUE
         [] node.type = "IFF" -> IF l THEN r ELSE ~r
         [] node.type = "XOR" -> IF l THEN ~r ELSE r

\* C15: evaluateAST yields a truth value for every tree and every context,
\* the one of the reference semantics: connectives as defined, constants
\* fixed, a variable absent from the context false.
C15_EvaluateMatchesSemantics ==
    txStage = "evaluated" =>
        /\ txValue \in BOOLEAN
        /\ txValue = RefValue(txParsed.nodes, txParsed.node, txContext)

\* A imp B evaluated where A is absent and B is false
C15_AbsentAntecedent ==
    /\ txStage = "evaluated"
    /\ txText = <<"A", SYM_IMPLIES, "B">>
    /\ DOMAIN txContext = {"B"} /\ ~txContext["B"]
    /\ txValue

\* ---- tokenizer claims
TokenTypes(tokens) == [k \in 1..Len(tokens) |-> tokens[k].type]

Tokenized == txStage # "text"

\* C16: a spelling of a binary connective between two letters gives the
\* tokens letter, that connective, letter; a spelling of the negation before
\* a letter gives NOT, letter; nothing is split and no letter is absorbed.
C16_AliasIsOneOperatorToken ==
    Tokenized =>
        LET n == Len(txText)
        IN /\ \A conn \in BinaryTypes :
                 (n >= 3 /\ txText[1] \in Letters /\ txText[n] \in Letters
                    /\ SubSeq(txText, 2, n - 1) \in Aliases(conn)) =>
                     /\ TokenTypes(txTokens) = <<"VAR", conn, "VAR", "EOF">>
                     /\ txTokens[1].value = txText[1]
                     /\ txTokens[3].value = txText[n]
           /\ (n >= 2 /\ txText[n] \in Letters
                 /\ SubSeq(txText, 1, n - 1) \in Aliases("NOT")) =>
                     /\ TokenTypes(txTokens) = <<"NOT", "VAR", "EOF">>
                     /\ txTokens[2].value = txText[n]

\* the text in upper case
UpperText == [k \in 1..Len(txText) |-> toUpperCase(txText[k])]

\* a token value, which the tokenizer always makes one character long, as text
NameText(value) == <<value>>

ReportedNames(text) ==
    [k \in 1..Len(extractVariablesFromExpression(text)) |->
        NameText(extractVariablesFromExpression(text)[k])]

\* C17: a letter followed by digits is one VAR token named by the whole
\* upper-cased string; a 0 or 1 alone is a VAR token that
\* extractVariablesFromExpression does not report.
C17_LetterDigitsIsOneVariable ==
    (Tokenized /\ txText \in VariableTexts) =>
        IF txText[1] \in NameLetters
          THEN /\ TokenTypes(txTokens) = <<"VAR", "EOF">>
               /\ NameText(txTokens[1].value) = UpperText
               /\ ReportedNames(txText) = <<UpperText>>
        ELSE txText[1] \in {"0", "1"} =>
               /\ TokenTypes(txTokens) = <<"VAR", "EOF">>
               /\ extractVariablesFromExpression(txText) = <<>>

\* ---- validator claims
Family(t) ==
    CASE t.type \in {"LPAREN", "RPAREN"} -> "paren"
      [] t.type \in {"LBRACKET", "RBRACKET"} -> "square"
      [] t.type \in {"LBRACE", "RBRACE"} -> "brace"
      [] OTHER -> "none"

\* the families of the brackets open after the first k tokens
RECURSIVE OpenStack(_, _)
OpenStack(tokens, k) ==
    IF k = 0 THEN <<>>
    ELSE LET before == OpenStack(tokens, k - 1)
         IN IF isOpen(tokens[k]) THEN Append(before, Family(tokens[k]))
            ELSE IF isClose(tokens[k]) /\ before # <<>>
              THEN SubSeq(before, 1, Len(before) - 1)
            ELSE before

\* the seven defects of a token stream (its last token is EOF)
Defect(d, tokens) ==
    LET n == Len(tokens) - 1
    IN CASE d = 1 -> n = 0
         [] d = 2 -> \E k \in 1..(n - 1) :
                        tokens[k].type \in BinaryTypes /\ tokens[k + 1].type \in BinaryTypes
         [] d = 3 -> \E k \in 1..(n - 1) : tokens[k].type = "VAR" /\ tokens[k + 1].type = "VAR"
         [] d = 4 -> \E k \in 1..(n - 1) : isOpen(tokens[k]) /\ isClose(tokens[k + 1])
         [] d = 5 -> \E k \in 1..n :
                        /\ isClose(tokens[k])
                        /\ LET open == OpenStack(tokens, k - 1)
                           IN open = <<>> \/ open[Len(open)] # Family(tokens[k])
         [] d = 6 -> OpenStack(tokens, n) # <<>>
         [] d = 7 -> n > 0 /\ tokens[n].type \in BinaryTypes \cup {"NOT"}

DefectMessage(d) ==
    CASE d = 1 -> "Empty expression"
      [] d = 2 -> "Mathematical syntax error: Adjacent operators"
      [] d = 3 -> "Missing operator between"
      [] d = 4 -> "Empty brackets found"
      [] d = 5 -> "Grouping mismatch: Unexpected"
      [] d = 6 -> "Missing closing bracket for"
      [] d = 7 -> "Expression ends incomplete"

Validated == txStage \notin {"text", "tokens"}

\* C18: a token stream with any of the seven defects gets a diagnostic; a
\* stream with exactly one of them gets the diagnostic of that defect; the
\* seven diagnostics differ from one another.
C18_DefectsAreDiagnosed ==
    Validated =>
        /\ \A d \in 1..7 : Defect(d, txTokens) =>
              /\ txDiag # NULL
              /\ (\A e \in 1..7 : e # d => ~Defect(e, txTokens)) =>
                     txDiag.msg = DefectMessage(d)
        /\ \A d, e \in 1..7 : d # e => DefectMessage(d) # DefectMessage(e)

\* a parenthesis closed by a square bracket, and nothing else wrong
C18_FamilyMismatchAlone ==
    /\ Validated
    /\ txText = <<"(", "A", "]">>
    /\ \A d \in 1..7 : Defect(d, txTokens) <=> d = 5
    /\ txDiag.msg = DefectMessage(5)

\* ---- implication-form claims
\* the value of a text the engine tokenizes, parses and evaluates
TextValue(text, ctx) ==
    LET parsed == parse(tokenize(text))
    IN evaluateAST(parsed.nodes, parsed.node, ctx)

FullContexts == [Operands -> BOOLEAN]

\* C19: implication forms exist exactly when the root is IMPLIES; then, P
\* and Q being its operands, the converse reads as Q imp P, the inverse as
\* not P imp not Q and the contrapositive as not Q imp not P on every
\* assignment, so that the contrapositive is equivalent to the formula.
C19_ImplicationFormsMeanWhatTheySay ==
    txStage = "forms" =>
        LET root == txParsed.nodes[txParsed.node + 1]
        IN /\ txForms.defined <=> root.type = "IMPLIES"
           /\ txForms.defined =>
                 \A ctx \in FullContexts :
                     LET p == RefValue(txParsed.nodes, root.left, ctx)
                         q == RefValue(txParsed.nodes, root.right, ctx)
                     IN /\ TextValue(txForms.converse, ctx) = (q => p)
                        /\ TextValue(txForms.inverse, ctx) = (~p => ~q)
                        /\ TextValue(txForms.contrapositive, ctx) = (~q => ~p)
                        /\ TextValue(txForms.contrapositive, ctx)
                               = RefValue(txParsed.nodes, txParsed.node, ctx)

\* ---- contingency claims
\* a leaf of the tree that is not Closed
RECURSIVE HasOpenLeaf(_)
HasOpenLeaf(branch) ==
    IF branch.children = <<>> THEN branch.status \in {"Open", "Complete"}
    ELSE \E k \in 1..Len(branch.children) : HasOpenLeaf(branch.children[k])

TautologyAttempt == generateSTTTReport(analysis.nodes, analysis.ast, "Tautology")
ContradictionAttempt == generateSTTTReport(analysis.nodes, analysis.ast, "Contradiction")

\* C20: a Contingency report is Disproven if the Tautology or the
\* Contradiction attempt is Proven, and Proven exactly when both attempts
\* are Disproven, each with a branch left open; its rootBranch is the tree
\* of the attempt that decided: the first Proven one, and the Tautology
\* attempt when the formula is reported a contingency.
C20_ContingencyFollowsAttempts ==
    (analysis.present /\ report.present /\ report.target = "Contingency") =>
        LET t == TautologyAttempt
            c == ContradictionAttempt
            bothFail == t.result = "Disproven" /\ c.result = "Disproven"
        IN /\ (t.result = "Proven" \/ c.result = "Proven") => report.result = "Disproven"
           /\ report.result = "Proven" <=> bothFail
           /\ bothFail => HasOpenLeaf(t.rootBranch) /\ HasOpenLeaf(c.rootBranch)
           /\ report.rootBranch = IF t.result = "Proven" THEN t.rootBranch
                                  ELSE IF c.result = "Proven" THEN c.rootBranch
                                  ELSE t.rootBranch

\* a formula was reported a contingency on a branching Tautology attempt
\* whose tree is not the Contradiction attempt's
C20_ContingencyReported ==
    /\ analysis.present
    /\ Proved("Contingency")
    /\ TautologyAttempt.result = "Disproven"
    /\ ContradictionAttempt.result = "Disproven"
    /\ Len(report.rootBranch.children) = 2
    /\ report.rootBranch = TautologyAttempt.rootBranch
    /\ report.rootBranch # ContradictionAttempt.rootBranch

\* ---- proof-tree claims
\* every branch of a tree, the root included
RECURSIVE AllBranches(_)
AllBranches(branch) ==
    {branch} \cup UNION {AllBranches(branch.children[k]) : k \in 1..Len(branch.children)}

\* the branches with no children
Leaves(tree) == {b \in AllBranches(tree) : b.children = <<>>}

\* an Equivalence report on the analysed formula, whose root is then IFF
EquivalenceReported ==
    analysis.present /\ report.present /\ report.target = "Equivalence"

\* every path of a solved case that was followed to its end holds the
\* values l and r for the two sides of the biconditional
SidesForced(branch, l, r) ==
    \A leaf \in Leaves(branch) :
        leaf.status = "Complete" =>
            /\ analysis.nodes[analysis.ast + 1].left \in DOMAIN leaf.assignments
            /\ analysis.nodes[analysis.ast + 1].right \in DOMAIN leaf.assignments
            /\ leaf.assignments[analysis.nodes[analysis.ast + 1].left] = l
            /\ leaf.assignments[analysis.nodes[analysis.ast + 1].right] = r

\* a case solved on its own: from a child of a root without assignments
SolvedAlone(label, l, r) ==
    solveBranch(analysis.nodes,
                createChildBranch(Branch(<<"root">>, <<>>, EmptyAssignments), label),
                <<PNode(analysis.nodes[analysis.ast + 1].left, l),
                  PNode(analysis.nodes[analysis.ast + 1].right, r)>>)

\* C21: an Equivalence report on an IFF root has a root with exactly two
\* children, the cases left true / right false and left false / right true,
\* each solved from an empty assignment set as if the other did not exist;
\* the result is Proven exactly when both children are Closed.
C21_EquivalenceSplitsInTwo ==
    EquivalenceReported =>
        LET root == report.rootBranch
        IN /\ analysis.nodes[analysis.ast + 1].type = "IFF"
           /\ root.assignments = EmptyAssignments
           /\ Len(root.children) = 2
           /\ SidesForced(root.children[1], TRUE, FALSE)
           /\ SidesForced(root.children[2], FALSE, TRUE)
           /\ root.children[1] = SolvedAlone("L=T, R=F", TRUE, FALSE)
           /\ root.children[2] = SolvedAlone("L=F, R=T", FALSE, TRUE)
           /\ report.result = "Proven"
                  <=> (root.children[1].status = "Closed"
                       /\ root.children[2].status = "Closed")

\* an Equivalence report whose first case was solved without a split and
\* whose second case split again
C21_EquivalenceCasesSolved ==
    /\ EquivalenceReported
    /\ Disproved("Equivalence")
    /\ Len(report.rootBranch.children) = 2
    /\ report.rootBranch.children[1].children = <<>>
    /\ Len(report.rootBranch.children[2].children) = 2

\* ---- edited-table claims
\* C22: after any sequence of cell edits the table still has 2^n rows and
\* every assignment of the declared variables is the input part of exactly
\* one row.
C22_RowsStayOnePerAssignment ==
    analysis.present =>
        LET n == Len(analysis.variables)
        IN /\ Len(analysis.rows) = 2 ^ n
           /\ \A m \in 0..(2 ^ n - 1) :
                 Cardinality({k \in 1..Len(analysis.rows) :
                                 AssignmentIndex(analysis, analysis.rows[k]) = m}) = 1

\* ---- solver claims
\* solveBranch has been run on its own
Solved == analysis.present /\ sbQueue # <<>>

\* the position in a queue of the first obligation that gives a node the
\* opposite of an earlier obligation's value; 0 if there is none
FirstConflict(queue) ==
    LET clashes == {i \in 1..Len(queue) :
                       \E j \in 1..(i - 1) : /\ queue[j].ast = queue[i].ast
                                             /\ queue[j].targetValue # queue[i].targetValue}
    IN IF clashes = {} THEN 0 ELSE CHOOSE i \in clashes : \A k \in clashes : i <= k

\* a queue of obligations on variables only: nothing is propagated
OnlyVariables(queue) ==
    \A i \in 1..Len(queue) : analysis.nodes[queue[i].ast + 1].type = "VAR"

\* C23: in a tree built by solveBranch a branch that split has exactly two
\* children and is Closed iff both are Closed, Complete otherwise; a branch
\* that meets an obligation against a value it already holds becomes Closed,
\* records the two values and processes nothing after it.
C23_SplitAndConflictRules ==
    Solved =>
        /\ \A b \in AllBranches(sbBranch) :
              /\ Len(b.children) \in {0, 2}
              /\ Len(b.children) = 2 =>
                    /\ b.status = "Closed" <=> (b.children[1].status = "Closed"
                                                /\ b.children[2].status = "Closed")
                    /\ b.status # "Closed" => b.status = "Complete"
                    /\ ~b.contradiction.present
              /\ Len(b.children) = 0 =>
                    /\ b.status = "Closed" <=> b.contradiction.present
                    /\ b.status # "Closed" => b.status = "Complete"
              /\ b.contradiction.present =>
                    /\ b.contradiction.val1 # b.contradiction.val2
                    /\ b.steps[Len(b.steps)].description = "Contradiction"
                    /\ \E id \in DOMAIN b.assignments :
                          /\ analysis.nodes[id + 1].expression = b.contradiction.variable
                          /\ b.assignments[id] = b.contradiction.val1
        /\ OnlyVariables(sbQueue) =>
              LET i == FirstConflict(sbQueue)
              IN IF i = 0
                   THEN /\ sbBranch.status = "Complete"
                        /\ DOMAIN sbBranch.assignments
                               = {sbQueue[j].ast : j \in 1..Len(sbQueue)}
                 ELSE /\ sbBranch.status = "Closed"
                      /\ sbBranch.children = <<>>
                      /\ sbBranch.contradiction =
                             [present |-> TRUE,
                              variable |-> analysis.nodes[sbQueue[i].ast + 1].expression,
                              val1 |-> ~sbQueue[i].targetValue,
                              val2 |-> sbQueue[i].targetValue]
                      /\ DOMAIN sbBranch.assignments
                             = {sbQueue[j].ast : j \in 1..(i - 1)}

\* a branch split and both of its cases met a conflict
C23_BothCasesClosed ==
    /\ Solved
    /\ Len(sbBranch.children) = 2
    /\ sbBranch.status = "Closed"
    /\ sbBranch.children[1].contradiction.present
    /\ sbBranch.children[2].contradiction.present

\* C24: in every report, whatever the target, every branch of the tree,
\* the root included, ended Closed or Complete; none is left Open.
C24_NoBranchLeftOpen ==
    (analysis.present /\ report.present) =>
        \A b \in AllBranches(report.rootBranch) : b.status \in {"Closed", "Complete"}

\* the leaves of a tree that ended Complete
CompleteLeaves(tree) ==
    {b \in AllBranches(tree) : b.children = <<>> /\ b.status = "Complete"}

\* C25: a report that does not prove its target (Tautology, Contradiction,
\* Implication or Equivalence) carries a counter-example, and it is the
\* assignment map of a childless branch that ended Complete.
C25_CounterExampleIsACompleteLeaf ==
    (analysis.present /\ report.present /\ report.target # "Contingency"
     /\ report.result = "Disproven") =>
        /\ report.counterExample.defined
        /\ \E b \in CompleteLeaves(report.rootBranch) :
              report.counterExample.map = b.assignments

\* ---- propagation claims
\* the truth function of a binary connective
Connective(type, l, r) ==
    CASE type = "AND" -> l /\ r
      [] type = "OR" -> l \/ r
      [] type = "IMPLIES" -> l => r
      [] type = "IFF" -> l = r
      [] type = "XOR" -> l # r

\* child values satisfy a set of obligations
Satisfies(obligations, env) ==
    \A k \in 1..Len(obligations) :
        /\ obligations[k].ast \in DOMAIN env
        /\ env[obligations[k].ast] = obligations[k].targetValue

\* getImplications decomposes node id forced to val exactly
ExactFor(nodes, id, val) ==
    LET node == nodes[id + 1]
        moves == getImplications(nodes, id, val)
        allowed(env) == IF moves.type = "Deterministic" THEN Satisfies(moves.nodes, env)
                        ELSE /\ Len(moves.branches) = 2
                             /\ \/ Satisfies(moves.branches[1], env)
                                \/ Satisfies(moves.branches[2], env)
    IN IF node.type = "NOT" /\ node.operand # NoNode
         THEN /\ moves.type = "Deterministic"
              /\ \A o \in BOOLEAN : (~o = val) <=> allowed(node.operand :> o)
       ELSE IF node.type \in BinaryTypes /\ node.left # NoNode /\ node.right # NoNode
         THEN /\ moves.type = "Deterministic"
                     <=> <<node.type, val>> \in {<<"AND", TRUE>>, <<"OR", FALSE>>,
                                                 <<"IMPLIES", FALSE>>}
              /\ moves.type \in {"Deterministic", "Branching"}
              /\ \A l \in BOOLEAN, r \in BOOLEAN :
                    (Connective(node.type, l, r) = val)
                        <=> allowed((node.left :> l) @@ (node.right :> r))
       ELSE moves = Deterministic(<<>>)

\* C26: getImplications is exact: child values give the connective the
\* forced value iff they satisfy the one deterministic obligation set or one
\* of the two alternatives; NOT, AND true, OR false, IMPLIES false are
\* deterministic, every other binary case branches in two.
C26_ImplicationsExact ==
    Solved =>
        \A b \in AllBranches(sbBranch) :
            \A id \in DOMAIN b.assignments :
                ExactFor(analysis.nodes, id, b.assignments[id])

\* an exclusive or was forced false and decomposed
C26_XorForcedFalse ==
    /\ Solved
    /\ analysis.nodes[analysis.ast + 1].type = "XOR"
    /\ analysis.ast \in DOMAIN sbBranch.assignments
    /\ ~sbBranch.assignments[analysis.ast]
    /\ Len(sbBranch.children) = 2

\* ---- split claims
\* map m holds everything map p holds
Extends(m, p) ==
    /\ DOMAIN p \subseteq DOMAIN m
    /\ \A id \in DOMAIN p : m[id] = p[id]

\* the obligations left in the queue of the solver's root when it split:
\* those the run had not reached, found by replaying the deterministic part
RECURSIVE RemainingAtSplit(_, _, _)
RemainingAtSplit(nodes, assignments, todoQueue) ==
    IF todoQueue = <<>> THEN [split |-> FALSE]
    ELSE LET ast == todoQueue[1].ast
             val == todoQueue[1].targetValue
             moves == getImplications(nodes, ast, val)
         IN IF ast \in DOMAIN assignments
              THEN IF assignments[ast] # val THEN [split |-> FALSE]
                   ELSE RemainingAtSplit(nodes, assignments, Tail(todoQueue))
            ELSE IF moves.type = "Deterministic"
              THEN RemainingAtSplit(nodes, (ast :> val) @@ assignments,
                                    Tail(todoQueue) \o moves.nodes)
            ELSE [split |-> TRUE, queue |-> Tail(todoQueue), moves |-> moves,
                  assignments |-> (ast :> val) @@ assignments]

\* C27: when a branch splits, each child starts from a copy of the parent's
\* assignments and the parent's remaining queue extended with one of the two
\* alternatives; solving a child leaves its sibling and the parent's
\* assignments as they were, and each child's final assignments contain the
\* parent's assignments at the split.
C27_ChildrenInheritAndStayApart ==
    Solved =>
        /\ \A b \in AllBranches(sbBranch) :
              \A k \in 1..Len(b.children) : Extends(b.children[k].assignments, b.assignments)
        /\ LET at == RemainingAtSplit(analysis.nodes, EmptyAssignments, sbQueue)
           IN /\ at.split <=> Len(sbBranch.children) = 2
              /\ at.split =>
                    /\ sbBranch.assignments = at.assignments
                    /\ \A k \in 1..2 :
                          sbBranch.children[k] =
                              solveBranch(analysis.nodes,
                                          Branch(Append(sbBranch.id,
                                                        sbBranch.children[k].id[Len(sbBranch.id) + 1]),
                                                 <<sbBranch.children[k].steps[1]>>,
                                                 at.assignments),
                                          at.queue \o at.moves.branches[k])

\* a split with obligations still queued, one case closing on an inherited
\* obligation while the other completes
C27_SplitWithQueuedObligations ==
    /\ Solved
    /\ Len(sbBranch.children) = 2
    /\ RemainingAtSplit(analysis.nodes, EmptyAssignments, sbQueue).split
    /\ RemainingAtSplit(analysis.nodes, EmptyAssignments, sbQueue).queue # <<>>
    /\ sbBranch.children[1].status = "Closed"
    /\ sbBranch.children[2].status = "Complete"
    /\ Cardinality(DOMAIN sbBranch.assignments) >= 1

\* ---- termination claims
\* the steps along the path from the root to a branch: the steps of the
\* branch's ancestors followed by its own
RECURSIVE PathSteps(_, _)
PathSteps(tree, leaf) ==
    IF tree = leaf THEN tree.steps
    ELSE LET k == CHOOSE j \in 1..Len(tree.children) :
                      leaf \in AllBranches(tree.children[j])
         IN tree.steps \o PathSteps(tree.children[k], leaf)

\* how many branches lie above a branch
RECURSIVE Depth(_, _)
Depth(tree, leaf) ==
    IF tree = leaf THEN 0
    ELSE LET k == CHOOSE j \in 1..Len(tree.children) :
                      leaf \in AllBranches(tree.children[j])
         IN 1 + Depth(tree.children[k], leaf)

BinaryNodes(nodes) ==
    {id \in 0..(Len(nodes) - 1) : nodes[id + 1].type \in BinaryTypes}

\* the steps of a sequence that record a forcing
Forcings(steps) == {k \in 1..Len(steps) : steps[k].description = "Force"}

\* C28: every proof run ends, and along any path from the root to a leaf
\* each node is forced at most once: the forcings on a path are at most the
\* nodes of the tree and the nesting depth at most its binary nodes.
C28_PathsBoundedByFormula ==
    (analysis.present /\ report.present) =>
        \A leaf \in Leaves(report.rootBranch) :
            /\ Cardinality(DOMAIN leaf.assignments) <= Len(analysis.nodes)
            /\ DOMAIN leaf.assignments \subseteq 0..(Len(analysis.nodes) - 1)
            /\ Cardinality(Forcings(PathSteps(report.rootBranch, leaf)))
                   <= Cardinality(DOMAIN leaf.assignments)
            /\ Depth(report.rootBranch, leaf) <= Cardinality(BinaryNodes(analysis.nodes))

\* a report whose tree nests as deep as the formula has binary nodes and
\* forced every node on one path
C28_DeepestTree ==
    /\ analysis.present /\ report.present
    /\ Cardinality(BinaryNodes(analysis.nodes)) = 2
    /\ \E leaf \in Leaves(report.rootBranch) :
          /\ Depth(report.rootBranch, leaf) = 2
          /\ Cardinality(DOMAIN leaf.assignments) = 4
    /\ \E leaf \in Leaves(report.rootBranch) :
          Cardinality(DOMAIN leaf.assignments) = Len(analysis.nodes)

\* ---- K-Map group claims
\* the cells of a group, as a set
CellSet(g) == {<<g.cells[k].r, g.cells[k].c>> : k \in 1..Len(g.cells)}

\* the rectangles of a rows by cols map: power-of-two height and width,
\* wrapping around the edges
Rectangles(rows, cols) ==
    {{<<(r + i) % rows, (c + j) % cols>> : i \in 0..(h - 1), j \in 0..(w - 1)} :
        r \in 0..(rows - 1), c \in 0..(cols - 1),
        h \in {x \in {1, 2, 4} : x <= rows}, w \in {x \in {1, 2, 4} : x <= cols}}

AllTrue(km, cells) == \A rc \in cells : km.grid[rc[1] + 1][rc[2] + 1].value

\* C29: every group of solveKMap is a wrap-around rectangle of power-of-two
\* height, width and area, all of whose cells are true; when accepted it
\* covered a minterm no earlier group covered; groups come in order of
\* non-increasing area; and none lies properly inside a larger all-true
\* rectangle.
C29_GroupsArePrimeRectangles ==
    kmData.defined =>
        LET rects == Rectangles(Len(kmData.grid), Len(kmData.grid[1]))
        IN \A i \in 1..Len(kmData.groups) :
              LET g == kmData.groups[i]
              IN /\ CellSet(g) \in rects
                 /\ Cardinality(CellSet(g)) = Len(g.cells)
                 /\ Len(g.cells) \in {1, 2, 4, 8, 16}
                 /\ AllTrue(kmData, CellSet(g))
                 /\ \E m \in GroupMinterms(kmData, g) :
                       \A j \in 1..(i - 1) : m \notin GroupMinterms(kmData, kmData.groups[j])
                 /\ i > 1 => Len(kmData.groups[i - 1].cells) >= Len(g.cells)
                 /\ \A big \in rects :
                       ~(AllTrue(kmData, big) /\ CellSet(g) \subseteq big
                         /\ CellSet(g) # big)

\* a group of four followed by a wrapping pair that shares a cell with it
C29_OverlappingSmallerGroup ==
    /\ kmData.defined /\ Len(kmVariables) = 4
    /\ Len(kmData.groups) >= 2
    /\ Len(kmData.groups[1].cells) = 4
    /\ \E i \in 2..Len(kmData.groups) :
          /\ Len(kmData.groups[i].cells) = 2
          /\ CellSet(kmData.groups[i]) \cap CellSet(kmData.groups[1]) # {}
          /\ \E rc \in CellSet(kmData.groups[i]), rd \in CellSet(kmData.groups[i]) :
                rc[1] - rd[1] = 3 \/ rc[2] - rd[2] = 3

\* ---- dependency claims
\* the columns a dependency id identifies: by column id or by astId
ColumnsNamedBy(a, dep) ==
    {k \in 1..Len(a.columns) :
        \/ a.columns[k].id = <<"node", dep>>
        \/ a.columns[k].astId # NoNode /\ a.columns[k].astId = dep}

\* the immediate children of the node of a column
ChildrenOf(a, col) ==
    {a.nodes[col.astId + 1].left, a.nodes[col.astId + 1].right,
     a.nodes[col.astId + 1].operand} \ {NoNode}

\* C30: with intermediate columns shown, every id in the dependencyIds of a
\* non-input column identifies a column of the table, and that column's
\* expression is the expression of an immediate child of the column's node.
C30_DependenciesNameColumns ==
    (analysis.present /\ settings.showSubExpressions) =>
        \A k \in 1..Len(analysis.columns) :
            ~analysis.columns[k].isInput =>
                \A d \in 1..Len(analysis.columns[k].dependencyIds) :
                    LET dep == analysis.columns[k].dependencyIds[d]
                    IN /\ dep \in ChildrenOf(analysis, analysis.columns[k])
                       /\ \E j \in ColumnsNamedBy(analysis, dep) :
                             analysis.columns[j].expression
                                 = analysis.nodes[dep + 1].expression
====
